---- MODULE Spec2Model ----
(***************************************************************************)
(* Conversation controller of the EU5 strategy agent (eu5_agent/agent.py): *)
(* the transcript, turn-group trimming, the complex-query classifier, the  *)
(* tool-call executor and the chat() loop.  The LLM endpoint, the          *)
(* knowledge store and the search provider are the environment.  Also the  *)
(* LRU cache (eu5_agent/cache.py) called from several threads.             *)
(***************************************************************************)
EXTENDS Integers, Sequences, FiniteSets, TLC

VARIABLES
    messages,              \* self.messages: the persisted transcript
    max_history_messages,  \* self.max_history_messages
    pc,                    \* position of the controller inside chat()
    user_message,          \* chat(): the argument of the running / last call
    is_complex_query,      \* chat(): local computed at line 282
    iteration,             \* chat(): loop counter
    request_messages,      \* chat(): message list of the LLM call in flight
    pending,               \* chat(): tool calls of the current response not yet executed
    outcome,               \* how the last chat() call ended
    old_messages,          \* _trim_messages(): self.messages at entry of the last trim
    llm_calls,             \* endpoint: create() calls received during this chat()
    llm_habit,             \* endpoint: the non-final response it gives by default this turn
    odd,                   \* endpoint: responses that departed from llm_habit this turn
    exec_call,             \* _execute_tool_call(): the argument of a direct call
    exec_result,           \* _execute_tool_call(): what that call returned or raised
    maxsize,               \* LRUCache.maxsize
    _cache,                \* LRUCache._cache: the entries, least recently used first
    _hits,                 \* LRUCache._hits
    _misses,               \* LRUCache._misses
    _lock,                 \* LRUCache._lock: the thread that holds it, or Free
    thread,                \* per thread: the cache call it is in and its position there
    serial,                \* the cache after the calls completed so far, run one by one
    touched,               \* keys of serial in the order of their latest touch
    gets_done,             \* ghost: get calls completed since the last clear() or construction
    caches,                \* cache.py: knowledge_cache and search_cache, by name
    caches_before,         \* caches as they were before the last module-level call
    cache_op,              \* the last call on the module-level caches
    _config,               \* config.py: the global _config, NoConfig for None
    config_made,           \* EU5Config instances constructed so far
    config_got,            \* per caller: what its last get_config() returned
    config_since_reset,    \* instances get_config() returned since the last reset_config()
    config_before_reset,   \* instances get_config() returned before the last reset_config()
    lookup                 \* per thread: the get_knowledge() call it is in and its position there

\* state of a direct _execute_tool_call() call
execVars == <<exec_call, exec_result>>

\* state that chat(), reset() and _trim_messages() leave alone
\* one LRUCache, the threads that call it, and the record of completed calls
cacheVars == <<maxsize, _cache, _hits, _misses, _lock, thread, serial, touched,
               gets_done>>

\* the two module-level caches and the record of the last call on them
moduleVars == <<caches, caches_before, cache_op>>

\* the configuration singleton and what its callers were given
configVars == <<_config, config_made, config_got, config_since_reset,
                config_before_reset>>

\* self.messages, the locals of chat() and the endpoint
chatVars == <<messages, max_history_messages, pc, user_message, is_complex_query,
              iteration, request_messages, pending, outcome, old_messages,
              llm_calls, llm_habit, odd>>

\* the get_knowledge() calls in progress
knowledgeVars == <<lookup>>

outsideChat == <<execVars, cacheVars, moduleVars, configVars, knowledgeVars>>

vars == <<messages, max_history_messages, pc, user_message, is_complex_query,
          iteration, request_messages, pending, outcome, old_messages,
          llm_calls, llm_habit, odd, exec_call, exec_result,
          maxsize, _cache, _hits, _misses, _lock, thread, serial, touched, gets_done,
          caches, caches_before, cache_op,
          _config, config_made, config_got, config_since_reset, config_before_reset,
          lookup>>

-----------------------------------------------------------------------------
(* Bounds of the model *)

\* largest max_history_messages explored
MaxCap == 5
\* largest LRUCache capacity explored
MaxSize == 2
\* get calls between two clear() calls
MaxGets == 3
\* responses per turn that may depart from the endpoint's habitual response
MaxOdd == 1
\* messages after the system message in a transcript handed to trim() directly
MaxTail == 5

\* configuration instances constructed in one run
MaxInstances == 3

\* planning signals, separator words and commas or semicolons put into one text
MaxParts == 2

(* Program constants *)

\* agent.py:291
max_iterations == 10

SYSTEM_PROMPT == "You are an expert Europa Universalis 5 strategy advisor."

ComplexModeInstruction == "[Complex Query Mode Enabled]\nTreat this as a campaign-level planning question."

FallbackText == "I've reached the maximum number of research steps for this query. This usually happens with very complex questions. Try asking a more specific question, or break it into smaller parts."

\* content of an assistant message that carries no text (None or "")
NoContent == ""
\* tool_call_id of a message that is not a tool message
NoId == "-"

-----------------------------------------------------------------------------
(* Messages *)

Msg(role, content, tool_calls, id) ==
    [role |-> role, content |-> content, tool_calls |-> tool_calls, tool_call_id |-> id]

SystemMsg == Msg("system", SYSTEM_PROMPT, <<>>, NoId)

UserMsg(text) == Msg("user", text, <<>>, NoId)

\* faulty variant: the text stored without the tool calls
AssistantMsg_TextOnly(response) == Msg("assistant", response.content, <<>>, NoId)

\* assistant_message.model_dump(): the response stored verbatim
AssistantMsg(response) == Msg("assistant", response.content, response.tool_calls, NoId)

ToolMsg(tool_call, tool_result) == Msg("tool", tool_result, <<>>, tool_call.id)

Max(a, b) == IF a >= b THEN a ELSE b

SetMin(S) == CHOOSE x \in S : \A y \in S : x <= y

SetMax(S) == CHOOSE x \in S : \A y \in S : x >= y

-----------------------------------------------------------------------------
(* _trim_messages *)

\* positions of the user messages, ascending (1-based)
UserIndexSet(msgs) == {i \in 1..Len(msgs) : msgs[i].role = "user"}

\* user_indices[-1], 1-based
LastUserOf(msgs) == SetMax(UserIndexSet(msgs))

\* the k-th user position (k is 1-based)
UserIndex(msgs, k) ==
    CHOOSE i \in UserIndexSet(msgs) : Cardinality({j \in UserIndexSet(msgs) : j <= i}) = k

\* faulty variant: the system message not put back
Remaining_NoSystem(msgs, from) == SubSeq(msgs, from, Len(msgs))

\* [self.messages[0]] + self.messages[user_indices[cut]:], `from` being 1-based
Remaining(msgs, from) == <<msgs[1]>> \o SubSeq(msgs, from, Len(msgs))

\* faulty variants of the trim: the last messages kept whatever their group, a
\* strict first comparison, a group guard that lets one group through, no fallback
TrimMessages_SliceTail(msgs, cap) ==
    IF Len(msgs) <= cap THEN msgs
    ELSE <<msgs[1]>> \o SubSeq(msgs, Len(msgs) - Max(cap - 1, 1) + 1, Len(msgs))

TrimMessages_StrictCap(msgs, cap) ==
    LET n == Cardinality(UserIndexSet(msgs))
        fits == {cut \in 1..(n - 1) :
                    Len(Remaining(msgs, UserIndex(msgs, cut + 1))) <= cap}
    IN  IF Len(msgs) < cap THEN msgs
        ELSE IF n <= 1 THEN msgs
        ELSE IF fits # {} THEN Remaining(msgs, UserIndex(msgs, SetMin(fits) + 1))
        ELSE Remaining(msgs, UserIndex(msgs, n))

TrimMessages_NoGroupGuard(msgs, cap) ==
    LET n == Cardinality(UserIndexSet(msgs))
        fits == {cut \in 1..(n - 1) :
                    Len(Remaining(msgs, UserIndex(msgs, cut + 1))) <= cap}
    IN  IF Len(msgs) <= cap THEN msgs
        ELSE IF n < 1 THEN msgs
        ELSE IF fits # {} THEN Remaining(msgs, UserIndex(msgs, SetMin(fits) + 1))
        ELSE Remaining(msgs, UserIndex(msgs, n))

TrimMessages_NoFallback(msgs, cap) ==
    LET n == Cardinality(UserIndexSet(msgs))
        fits == {cut \in 1..(n - 1) :
                    Len(Remaining(msgs, UserIndex(msgs, cut + 1))) <= cap}
    IN  IF Len(msgs) <= cap THEN msgs
        ELSE IF n <= 1 THEN msgs
        ELSE IF fits # {} THEN Remaining(msgs, UserIndex(msgs, SetMin(fits) + 1))
        ELSE msgs

\* faulty variants: the latest cut that fits taken instead of the earliest; the
\* fallback keeping the system message alone
TrimMessages_DropMost(msgs, cap) ==
    LET n == Cardinality(UserIndexSet(msgs))
        fits == {cut \in 1..(n - 1) :
                    Len(Remaining(msgs, UserIndex(msgs, cut + 1))) <= cap}
    IN  IF Len(msgs) <= cap THEN msgs
        ELSE IF n <= 1 THEN msgs
        ELSE IF fits # {} THEN Remaining(msgs, UserIndex(msgs, SetMax(fits) + 1))
        ELSE Remaining(msgs, UserIndex(msgs, n))

\* faulty variant: one call drops the oldest turn group only
TrimMessages_OneGroupPerCall(msgs, cap) ==
    LET n == Cardinality(UserIndexSet(msgs))
    IN  IF Len(msgs) <= cap THEN msgs
        ELSE IF n <= 1 THEN msgs
        ELSE Remaining(msgs, UserIndex(msgs, 2))

TrimMessages_FallbackSystemOnly(msgs, cap) ==
    LET n == Cardinality(UserIndexSet(msgs))
        fits == {cut \in 1..(n - 1) :
                    Len(Remaining(msgs, UserIndex(msgs, cut + 1))) <= cap}
    IN  IF Len(msgs) <= cap THEN msgs
        ELSE IF n <= 1 THEN msgs
        ELSE IF fits # {} THEN Remaining(msgs, UserIndex(msgs, SetMin(fits) + 1))
        ELSE <<msgs[1]>>

\* _trim_messages, lines 88-132
TrimMessages(msgs, cap) ==
    LET n == Cardinality(UserIndexSet(msgs))
        \* range(1, len(user_indices)): the cuts whose candidate fits the cap
        fits == {cut \in 1..(n - 1) :
                    Len(Remaining(msgs, UserIndex(msgs, cut + 1))) <= cap}
    IN  IF Len(msgs) <= cap THEN msgs
        ELSE IF n <= 1 THEN msgs
        ELSE IF fits # {} THEN Remaining(msgs, UserIndex(msgs, SetMin(fits) + 1))
        ELSE Remaining(msgs, UserIndex(msgs, n))

-----------------------------------------------------------------------------
(* _is_complex_query: computed on the characters of the text *)

Char(s, i) == SubSeq(s, i, i)

UpperChars == "ABCDEFGHIJKLMNOPQRSTUVWXYZ"

LowerChars == "abcdefghijklmnopqrstuvwxyz"

LowerChar(c) ==
    IF \E i \in 1..Len(UpperChars) : Char(UpperChars, i) = c
    THEN Char(LowerChars, CHOOSE i \in 1..Len(UpperChars) : Char(UpperChars, i) = c)
    ELSE c

RECURSIVE LowerFrom(_, _)
LowerFrom(s, i) == IF i > Len(s) THEN "" ELSE LowerChar(Char(s, i)) \o LowerFrom(s, i + 1)

\* str.lower()
Lower(s) == LowerFrom(s, 1)

\* `sub in s`
Contains(s, sub) ==
    \E i \in 1..(Len(s) - Len(sub) + 1) : SubSeq(s, i, i + Len(sub) - 1) = sub

\* str.count of a single character
CountChar(s, c) == Cardinality({i \in 1..Len(s) : Char(s, i) = c})

WordChars == "abcdefghijklmnopqrstuvwxyz0123456789_"

\* \w, on lower-cased text
IsWordChar(c) == \E i \in 1..Len(WordChars) : Char(WordChars, i) = c

IsSpace(c) == c \in {" ", "\n", "\t"}

\* len(s.split())
WordCount(s) ==
    Cardinality({i \in 1..Len(s) :
        /\ ~IsSpace(Char(s, i))
        /\ (i = 1 \/ IsSpace(Char(s, i - 1)))})

complex_signals ==
    << "long-term", "long term", "mid game", "late game", "campaign", "roadmap",
       "plan", "trade-off", "tradeoff", "optimize", "contingency", "fallback",
       "if ", "risk", "timeline", "5 year", "10 year", "15 year", "30 year" >>

SeparatorWords == {"and", "while", "versus", "vs", "with"}

\* len(re.findall(r"\b(and|while|versus|vs\.?|with)\b", s)): a separator word
\* standing between two word boundaries; the optional "." never changes the count
SeparatorCount(s) ==
    Cardinality({i \in 1..Len(s) :
        \E w \in SeparatorWords :
            /\ i + Len(w) - 1 <= Len(s)
            /\ SubSeq(s, i, i + Len(w) - 1) = w
            /\ (i = 1 \/ ~IsWordChar(Char(s, i - 1)))
            /\ (i + Len(w) - 1 = Len(s) \/ ~IsWordChar(Char(s, i + Len(w))))})

SignalCount(s) ==
    Cardinality({k \in 1..Len(complex_signals) : Contains(s, complex_signals[k])})

\* line 254: the word count from which a message is long
LongMessageWords == 20

\* faulty variant: only the planning signals count
IsComplexQuery_SignalsOnly(text) == SignalCount(Lower(text)) >= 2

\* _is_complex_query, lines 224-256
IsComplexQuery(text) ==
    LET lower == Lower(text)
        signal_count == SignalCount(lower)
        separators == SeparatorCount(lower)
        punctuation_split == CountChar(lower, ",") + CountChar(lower, ";")
        long_message == WordCount(lower) >= LongMessageWords
    IN  signal_count >= 2 \/ separators >= 2 \/ punctuation_split >= 2 \/ long_message

-----------------------------------------------------------------------------
(* Knowledge store and search provider (the gateways behind the tools) *)

\* a decoded JSON value: its type and, for a string, its text
JStr(v) == [type |-> "string", val |-> v]

JInt(v) == [type |-> "integer", val |-> v]

JNull == [type |-> "null", val |-> ""]

JBool == [type |-> "boolean", val |-> "true"]

\* EU5Knowledge.KNOWLEDGE_MAP: per category the subcategories, in order
KNOWLEDGE_MAP ==
    [ mechanics |-> << "economy", "government", "production", "society", "diplomacy",
                       "military", "warfare", "geopolitics", "advances" >>,
      strategy  |-> << "beginner_route", "common_mistakes" >>,
      nations   |-> << "england" >>,
      resources |-> << "all" >> ]

\* the files of the knowledge directory that exist, and those that cannot be read
ExistingFiles ==
    { <<"mechanics", "economy">>, <<"mechanics", "society">>, <<"strategy", "beginner_route">>,
      <<"nations", "england">>, <<"resources", "all">> }

UnreadableFiles == { <<"nations", "england">> }

FileContent(category, subcategory) == "# " \o category \o "/" \o subcategory \o " notes"

RECURSIVE Join(_, _)
Join(list, sep) ==
    IF list = <<>> THEN ""
    ELSE IF Len(list) = 1 THEN list[1]
    ELSE list[1] \o sep \o Join(Tail(list), sep)

InSeq(x, list) == \E i \in 1..Len(list) : list[i] = x

\* EU5Knowledge.get_knowledge; subcategory "" stands for None or an empty string
get_knowledge(category, subcategory) ==
    IF category \notin DOMAIN KNOWLEDGE_MAP
    THEN [status |-> "error", content |-> "", source |-> "",
          error |-> "Invalid category '" \o category
                    \o "'. Available: ['mechanics', 'strategy', 'nations', 'resources']"]
    ELSE IF subcategory = "" /\ category # "resources"
    THEN [status |-> "list", source |-> "", error |-> "",
          content |-> "Please specify a subcategory. Available in '" \o category \o "': "
                      \o Join(KNOWLEDGE_MAP[category], ", ")]
    ELSE LET sub == IF subcategory = "" THEN "all" ELSE subcategory IN
         IF ~InSeq(sub, KNOWLEDGE_MAP[category])
         THEN [status |-> "error", content |-> "", source |-> "",
               error |-> "Invalid subcategory '" \o sub \o "' for '" \o category
                         \o "'. Available: " \o Join(KNOWLEDGE_MAP[category], ", ")]
         ELSE IF <<category, sub>> \notin ExistingFiles
         THEN [status |-> "error", content |-> "", source |-> "",
               error |-> "Knowledge file not found: " \o category \o "/" \o sub]
         ELSE IF <<category, sub>> \in UnreadableFiles
         THEN [status |-> "error", content |-> "", source |-> "",
               error |-> "Failed to read " \o category \o "/" \o sub]
         ELSE [status |-> "success", content |-> FileContent(category, sub),
               source |-> category \o "/" \o sub, error |-> ""]

\* search_eu5_wiki as the controller sees it: a list of results, or an exception
search_eu5_wiki(query) ==
    IF query = "EU5 estates"
    THEN [raises |-> FALSE,
          results |-> << [title |-> "Estates", url |-> "https://eu5.paradoxwikis.com/Estates",
                          snippet |-> "Estates are ..."],
                         [title |-> "Privileges", url |-> "https://eu5.paradoxwikis.com/Privileges",
                          snippet |-> ""] >>]
    ELSE IF query = "EU5 outage"
    THEN [raises |-> TRUE, results |-> <<>>]
    ELSE [raises |-> FALSE, results |-> <<>>]

Digits == << "1", "2", "3", "4", "5", "6", "7", "8", "9" >>

RECURSIVE FormatResults(_, _)
FormatResults(results, i) ==
    IF i > Len(results) THEN ""
    ELSE Digits[i] \o ". **" \o results[i].title \o "**\n"
         \o "   URL: " \o results[i].url \o "\n"
         \o (IF results[i].snippet # "" THEN "   " \o results[i].snippet \o "\n" ELSE "")
         \o "\n" \o FormatResults(results, i + 1)

-----------------------------------------------------------------------------
(* Tool functions and _execute_tool_call.  A result is the returned string, *)
(* or the exception that left the function.                                 *)

\* `gateway` names the gateway the call went through: "knowledge", "search" or "none"
Returned(text) == [raised |-> FALSE, text |-> text, gateway |-> "none"]

Raised(what) == [raised |-> TRUE, text |-> what, gateway |-> "none"]

Through(gateway, text) == [raised |-> FALSE, text |-> text, gateway |-> gateway]

\* faulty variant: the source annotation also goes on a listing
_query_knowledge_AnnotateAll(category, subcategory) ==
    LET result == get_knowledge(category, subcategory) IN
    IF result.status \in {"success", "list"}
    THEN "**Source: Local Knowledge Base (" \o result.source \o ")**\n\n" \o result.content
    ELSE "Error: " \o result.error

_query_knowledge(category, subcategory) ==
    LET result == get_knowledge(category, subcategory) IN
    IF result.status = "success"
    THEN "**Source: Local Knowledge Base (" \o result.source \o ")**\n\n" \o result.content
    ELSE IF result.status = "list" THEN result.content
    ELSE "Error: " \o result.error

_web_search(query) ==
    LET got == search_eu5_wiki(query) IN
    IF got.raises THEN "Web search error: transport failure"
    ELSE IF got.results = <<>> THEN "No results found for: " \o query
    ELSE "**Source: Web Search** (Query: " \o query \o ")\n\n" \o FormatResults(got.results, 1)

\* tool_call.function.arguments: json |-> "invalid" (does not parse), "array" (parses to
\* a non-object) or "object", whose members are `fields`
Arguments(json, fields) == [json |-> json, fields |-> fields]

ToolCall(id, name, arguments) == [id |-> id, name |-> name, arguments |-> arguments]

HasField(arguments, f) == arguments.json = "object" /\ f \in DOMAIN arguments.fields

\* arguments.get(f) is not None and not isinstance(arguments.get(f), str)
PresentNotString(arguments, f) ==
    HasField(arguments, f) /\ arguments.fields[f].type \notin {"null", "string"}

\* isinstance(x, int) accepts bool
PresentNotInt(arguments, f) ==
    HasField(arguments, f) /\ arguments.fields[f].type \notin {"null", "integer", "boolean"}

StringField(arguments, f) ==
    IF HasField(arguments, f) /\ arguments.fields[f].type = "string"
    THEN arguments.fields[f].val ELSE ""

\* lines 204-222: validation and dispatch on the tool name, the arguments parsed
Dispatch(function_name, arguments) ==
    IF function_name = "query_knowledge"
    THEN IF ~HasField(arguments, "category")
         THEN Returned("Error: invalid tool arguments (missing 'category' for query_knowledge)")
         ELSE IF arguments.fields["category"].type # "string"
         THEN Returned("Error: invalid tool arguments ('category' must be a string)")
         ELSE IF PresentNotString(arguments, "subcategory")
         THEN Returned("Error: invalid tool arguments ('subcategory' must be a string if provided)")
         \* self._query_knowledge(**arguments): an unexpected keyword is a TypeError
         ELSE IF ~(DOMAIN arguments.fields \subseteq {"category", "subcategory"})
         THEN Raised("TypeError")
         ELSE Through("knowledge", _query_knowledge(StringField(arguments, "category"),
                                                    StringField(arguments, "subcategory")))
    ELSE IF function_name = "web_search"
    THEN IF ~HasField(arguments, "query")
         THEN Returned("Error: invalid tool arguments (missing 'query' for web_search)")
         ELSE IF arguments.fields["query"].type # "string"
         THEN Returned("Error: invalid tool arguments ('query' must be a string)")
         ELSE IF PresentNotInt(arguments, "num_results")
         THEN Returned("Error: invalid tool arguments ('num_results' must be an integer if provided)")
         \* self._web_search(**arguments): an unexpected keyword is a TypeError
         ELSE IF ~(DOMAIN arguments.fields \subseteq {"query", "num_results"})
         THEN Raised("TypeError")
         ELSE Through("search", _web_search(StringField(arguments, "query")))
    ELSE Returned("Unknown tool: " \o function_name)

JSONDecodeFailed == "Error: invalid tool arguments (JSON decode failed: Expecting value)"

\* faulty variant: the tool name is looked at before the arguments are parsed
_execute_tool_call_DispatchFirst(tool_call) ==
    IF tool_call.name \notin {"query_knowledge", "web_search"}
    THEN Dispatch(tool_call.name, tool_call.arguments)
    ELSE IF tool_call.arguments.json = "invalid"
    THEN Returned(JSONDecodeFailed)
    ELSE Dispatch(tool_call.name, tool_call.arguments)

_execute_tool_call(tool_call) ==
    LET function_name == tool_call.name
        arguments == tool_call.arguments
    IN  IF arguments.json = "invalid"
        THEN Returned(JSONDecodeFailed)
        ELSE Dispatch(function_name, arguments)

-----------------------------------------------------------------------------
(* Inputs: user texts, tool calls and LLM responses *)

UserTexts ==
    { "How do estates work?",
      "Give me a 10 year campaign plan with trade-off analysis and contingencies" }

tcKnowledge ==
    ToolCall("call_k", "query_knowledge",
             Arguments("object", [category |-> JStr("mechanics"), subcategory |-> JStr("economy")]))

tcSearch ==
    ToolCall("call_s", "web_search", Arguments("object", [query |-> JStr("EU5 estates")]))

\* a well-formed object with a member the tool function does not accept
tcExtra ==
    ToolCall("call_x", "web_search",
             Arguments("object", [query |-> JStr("EU5 estates"), site |-> JStr("wiki")]))

Response(content, tool_calls) == [content |-> content, tool_calls |-> tool_calls]

FinalText == Response("Estates are interest groups.", <<>>)

Degenerate == Response(NoContent, <<>>)

ToolsOnly == Response(NoContent, <<tcKnowledge, tcSearch>>)

TextAndTools == Response("Let me look that up.", <<tcSearch>>)

\* text together with tool calls, one of them with a member the tool does not accept
ToolsWithExtra == Response("Checking the wiki.", <<tcKnowledge, tcExtra>>)

\* responses after which chat() calls the endpoint again
NonFinalResponses == {Degenerate, ToolsOnly, TextAndTools}

LLMResponses == NonFinalResponses \cup {FinalText, ToolsWithExtra}

NoOutcome == [kind |-> "none", value |-> ""]

\* exec_call and exec_result while no direct call is made
NoCall == ToolCall(NoId, "", Arguments("invalid", <<>>))

NoResult == [raised |-> FALSE, text |-> "", gateway |-> "unset"]

\* llm_habit before the first non-final response of a turn
NoHabit == Response("?", <<>>)

\* the classifier on the texts of the model, evaluated once
IsComplexOf == [text \in UserTexts |-> IsComplexQuery(text)]

-----------------------------------------------------------------------------
(* chat(): pieces of the loop body *)

\* faulty variant: the directive stored with the text of a complex query
AppendUser_Directive(msgs, text) ==
    Append(msgs, UserMsg(IF IsComplexQuery(text)
                         THEN ComplexModeInstruction \o "\n" \o text ELSE text))

\* lines 283-286: the raw user message goes into the history
AppendUser(msgs, text) == Append(msgs, UserMsg(text))

\* faulty variant: the directive goes out with every request
BuildRequest_Always(msgs, complex) ==
    <<msgs[1], Msg("system", ComplexModeInstruction, <<>>, NoId)>> \o Tail(msgs)

\* lines 302-308: the outgoing list, with the transient directive at position 1
BuildRequest(msgs, complex) ==
    IF complex
    THEN <<msgs[1], Msg("system", ComplexModeInstruction, <<>>, NoId)>> \o Tail(msgs)
    ELSE msgs

\* lines 347-351: the result of one tool call goes into the history
\* faulty variant: the function name where the call id belongs
AppendToolResult_NameAsId(msgs, tool_call, tool_result) ==
    Append(msgs, Msg("tool", tool_result, <<>>, tool_call.name))

AppendToolResult(msgs, tool_call, tool_result) ==
    Append(msgs, ToolMsg(tool_call, tool_result))

-----------------------------------------------------------------------------
(* LRUCache (eu5_agent/cache.py).  The object is the record of its fields; a   *)
(* call in progress is the record of its arguments, its position in the method *)
(* body and, once it is over, what it returned.                                *)

\* the threads that call the cache
Threads == {"t1", "t2"}

Free == "free"

CacheKeys == {"a", "b", "c"}

CacheValues == {"v1", "v2"}

Entry(key, value) == [key |-> key, value |-> value]

KeysOf(cache) == {cache[i].key : i \in 1..Len(cache)}

\* cache[key]
ValueOf(cache, key) == cache[CHOOSE i \in 1..Len(cache) : cache[i].key = key].value

\* faulty variant: removing a key also removes the entry behind it
Without_AndNext(cache, key) ==
    LET i == CHOOSE j \in 1..Len(cache) : cache[j].key = key
    IN  SubSeq(cache, 1, i - 1) \o SubSeq(cache, i + 2, Len(cache))

\* cache.pop(key), for the dictionary that is left
Without(cache, key) == SelectSeq(cache, LAMBDA e : e.key # key)

\* faulty variant: the newest entry is the one evicted
PopItemFirst_Last(cache) == SubSeq(cache, 1, Len(cache) - 1)

\* cache.popitem(last=False), for the dictionary that is left
PopItemFirst(cache) == Tail(cache)

\* faulty variant: one entry too many before eviction starts
Full_OneMore(cache, n) == Len(cache) > n

\* line 43: len(self._cache) >= self.maxsize
Full(cache, n) == Len(cache) >= n

\* faulty variant: a hit is counted twice
CountHit_Twice(o) == [o EXCEPT !.hits = @ + 2]

\* faulty variant: a hit is counted as a miss
CountHit_AsMiss(o) == [o EXCEPT !.misses = @ + 1]

\* line 33: self._hits += 1
CountHit(o) == [o EXCEPT !.hits = @ + 1]

\* faulty variant: a miss also drops the oldest entry
CountMiss_DropOldest(o) ==
    [o EXCEPT !.misses = @ + 1,
              !.cache = IF o.cache = <<>> THEN <<>> ELSE Tail(o.cache)]

\* line 35: self._misses += 1
CountMiss(o) == [o EXCEPT !.misses = @ + 1]

Object(cache, hits, misses, n) ==
    [cache |-> cache, hits |-> hits, misses |-> misses, maxsize |-> n]

\* lines 16-20: the object as the constructor leaves it
Constructed(n) == Object(<<>>, 0, 0, n)

Stats(size, n, hits, misses) ==
    [size |-> size, maxsize |-> n, hits |-> hits, misses |-> misses]

\* what a call gives back: a stored value, None, the stats dictionary, or the KeyError
\* of popitem() on an empty dictionary
Ret(kind, value, stats) == [kind |-> kind, value |-> value, stats |-> stats]

NoStats == Stats(0, 0, 0, 0)

NotReturned == Ret("unset", "", NoStats)

RetNone == Ret("None", "", NoStats)

Call(op, key, value) == [op |-> op, key |-> key, value |-> value]

CacheCalls ==
    {Call("get", k, "") : k \in CacheKeys}
    \cup {Call("set", k, v) : k \in CacheKeys, v \in CacheValues}
    \cup {Call("clear", "", ""), Call("stats", "", "")}

\* a call in progress: `at` is the statement reached, `tmp` the local `value` of get()
Frame(call, at, tmp, ret) == [call |-> call, at |-> at, tmp |-> tmp, ret |-> ret]

NotCalling == Frame(Call("none", "", ""), "idle", "", NotReturned)

Goto(l, at) == [l EXCEPT !.at = at]

Return(l, ret) == [l EXCEPT !.at = "return", !.ret = ret]

Config(o, l) == [o |-> o, l |-> l]

\* one statement of get(), set(), clear() or stats(), run on object o by the call l
Statement(o, l) ==
    LET key == l.call.key IN
    IF l.call.op = "get"
    THEN IF l.at = "enter"
         THEN Config(o, Goto(l, IF key \in KeysOf(o.cache) THEN "pop" ELSE "miss"))
         ELSE IF l.at = "pop"
         THEN Config([o EXCEPT !.cache = Without(o.cache, key)],
                     [l EXCEPT !.at = "reinsert", !.tmp = ValueOf(o.cache, key)])
         ELSE IF l.at = "reinsert"
         THEN Config([o EXCEPT !.cache = Append(o.cache, Entry(key, l.tmp))], Goto(l, "hit"))
         ELSE IF l.at = "hit"
         THEN Config(CountHit(o), Return(l, Ret("value", l.tmp, NoStats)))
         ELSE Config(CountMiss(o), Return(l, RetNone))
    ELSE IF l.call.op = "set"
    THEN IF l.at = "enter"
         THEN Config(o, Goto(l, IF key \in KeysOf(o.cache) THEN "pop"
                                ELSE IF Full(o.cache, o.maxsize) THEN "evict"
                                ELSE "insert"))
         ELSE IF l.at = "pop"
         THEN Config([o EXCEPT !.cache = Without(o.cache, key)], Goto(l, "insert"))
         ELSE IF l.at = "evict"
         THEN IF o.cache = <<>>
              THEN Config(o, Return(l, Ret("KeyError", "", NoStats)))
              ELSE Config([o EXCEPT !.cache = PopItemFirst(o.cache)], Goto(l, "insert"))
         ELSE Config([o EXCEPT !.cache = Append(o.cache, Entry(key, l.call.value))],
                     Return(l, RetNone))
    ELSE IF l.call.op = "clear"
    THEN IF l.at = "enter"
         THEN Config([o EXCEPT !.cache = <<>>], Goto(l, "zero_hits"))
         ELSE IF l.at = "zero_hits"
         THEN Config([o EXCEPT !.hits = 0], Goto(l, "zero_misses"))
         ELSE Config([o EXCEPT !.misses = 0], Return(l, RetNone))
    ELSE Config(o, Return(l, Ret("stats", "",
                                 Stats(Len(o.cache), o.maxsize, o.hits, o.misses))))

\* a call run from `l` to its end with nothing in between
RECURSIVE Run(_, _)
Run(o, l) ==
    IF l.at = "return" THEN Config(o, l)
    ELSE LET next == Statement(o, l) IN Run(next.o, next.l)

Atomic(o, call) == Run(o, Frame(call, "enter", "", NotReturned))

\* faulty variant: the lock keeps nobody out
CanAcquire_NoLock(owner, t) == TRUE

\* with self._lock: an RLock is free or held by the caller
CanAcquire(owner, t) == owner \in {Free, t}

\* the keys in the order of their latest touch after `call` has returned `ret`
Touch(order, call, ret, present) ==
    LET rest == SelectSeq(order, LAMBDA k : k # call.key)
        now == IF call.op = "clear" THEN <<>>
               ELSE IF call.op = "set" /\ ret.kind = "None" THEN Append(rest, call.key)
               ELSE IF call.op = "get" /\ ret.kind = "value" THEN Append(rest, call.key)
               ELSE order
    IN  SelectSeq(now, LAMBDA k : k \in present)

\* a cache of capacity n fresh from its constructor, no thread inside
CacheConstructed(n) ==
    /\ maxsize = n
    /\ _cache = <<>>
    /\ _hits = 0
    /\ _misses = 0
    /\ _lock = Free
    /\ thread = [t \in Threads |-> NotCalling]
    /\ serial = Constructed(n)
    /\ touched = <<>>
    /\ gets_done = 0

-----------------------------------------------------------------------------
(* The module-level caches (cache.py, lines 64-71) *)

CacheNames == {"knowledge", "search"}

\* knowledge_cache = LRUCache(maxsize=256), search_cache = LRUCache(maxsize=1024),
\* scaled down: the search cache is the larger one
ModuleMaxsize == [knowledge |-> MaxSize - 1, search |-> MaxSize]

ModuleKeys == {"a", "b"}

\* the calls made on a module-level cache
ModuleCalls == {call \in CacheCalls : call.key \in ModuleKeys \cup {""}}

\* a call on the caches: a method of one of them, or clear_all_caches(), which is at
\* "search" between its two statements
CacheOp(name, on, at) == [name |-> name, on |-> on, at |-> at]

NoCacheOp == CacheOp("none", "", "done")

\* both caches as the import of cache.py leaves them
ModuleImported ==
    /\ caches = [c \in CacheNames |-> Constructed(ModuleMaxsize[c])]
    /\ caches_before = [c \in CacheNames |-> Constructed(ModuleMaxsize[c])]
    /\ cache_op = NoCacheOp

-----------------------------------------------------------------------------
(* The configuration singleton (config.py, lines 177-192) *)

\* _config = None
NoConfig == 0

\* the call sites of get_config()
Callers == {"agent", "cli", "tests"}

\* faulty variant: every call constructs
NeedsInstance_Always(c) == TRUE

\* line 184: if _config is None
NeedsInstance(c) == c = NoConfig

ConfigImported ==
    /\ _config = NoConfig
    /\ config_made = 0
    /\ config_got = [caller \in Callers |-> NoConfig]
    /\ config_since_reset = {}
    /\ config_before_reset = {}

-----------------------------------------------------------------------------
(* EU5Knowledge.get_knowledge() with the knowledge cache, statement by statement *)

\* self._resolved_path
ResolvedPath == "/kb"

\* line 170: the cache key
CacheKey(category, subcategory) ==
    "knowledge:" \o ResolvedPath \o ":" \o category \o ":" \o subcategory

\* lines 126-129: resources without a subcategory means "all"
Defaulted(category, subcategory) ==
    IF subcategory = "" /\ category = "resources" THEN "all" ELSE subcategory

\* lines 118-165: the lookup gets past the validation of category, subcategory and file
Validates(category, subcategory) ==
    /\ category \in DOMAIN KNOWLEDGE_MAP
    /\ InSeq(Defaulted(category, subcategory), KNOWLEDGE_MAP[category])
    /\ <<category, Defaulted(category, subcategory)>> \in ExistingFiles

NoLookupResult == [status |-> "none", content |-> "", source |-> "", error |-> ""]

\* a get_knowledge() call: where it is, its arguments (the subcategory after the
\* default of line 130) and its result
Lookup(at, category, subcategory, result) ==
    [at |-> at, category |-> category, subcategory |-> subcategory, result |-> result]

NotLooking == Lookup("idle", "", "", NoLookupResult)

\* faulty variant: whatever the read gave is stored
AfterRead_AlwaysSet(result) == "set"

\* lines 175-195: a failed read leaves the try block before knowledge_cache.set
AfterRead(result) == IF result.status = "success" THEN "set" ELSE "done"

KnowledgeImported == lookup = [t \in Threads |-> NotLooking]

-----------------------------------------------------------------------------
(* The controller *)

Init ==
    /\ messages = <<SystemMsg>>
    /\ max_history_messages \in 0..MaxCap
    /\ pc = "idle"
    /\ user_message = ""
    /\ is_complex_query = FALSE
    /\ iteration = 0
    /\ request_messages = <<>>
    /\ pending = <<>>
    /\ outcome = NoOutcome
    /\ old_messages = <<>>
    /\ llm_calls = 0
    /\ llm_habit = NoHabit
    /\ odd = 0
    /\ exec_call = NoCall
    /\ exec_result = NoResult
    /\ CacheConstructed(MaxSize)
    /\ ModuleImported
    /\ ConfigImported
    /\ KnowledgeImported

\* faulty variant: the last message of the history survives
Reset_KeepLast ==
    /\ pc = "idle"
    /\ messages' = IF Len(messages) > 1
                   THEN <<SystemMsg, messages[Len(messages)]>>
                   ELSE <<SystemMsg>>
    /\ UNCHANGED <<max_history_messages, pc, user_message, is_complex_query, iteration,
                   request_messages, pending, outcome, old_messages, llm_calls,
                   llm_habit, odd>>
    /\ UNCHANGED outsideChat

\* reset(), lines 82-86
Reset ==
    /\ pc = "idle"
    /\ messages' = <<SystemMsg>>
    /\ UNCHANGED <<max_history_messages, pc, user_message, is_complex_query, iteration,
                   request_messages, pending, outcome, old_messages, llm_calls,
                   llm_habit, odd>>
    /\ UNCHANGED outsideChat

\* chat(user_message), lines 281-292
Converse(text) ==
    /\ pc = "idle"
    /\ user_message' = text
    /\ is_complex_query' = IsComplexOf[text]
    /\ messages' = AppendUser(messages, text)
    /\ iteration' = 0
    /\ pc' = "loop"
    /\ outcome' = NoOutcome
    /\ llm_calls' = 0
    /\ llm_habit' = NoHabit
    /\ odd' = 0
    /\ UNCHANGED <<max_history_messages, request_messages, pending, old_messages>>
    /\ UNCHANGED outsideChat

\* lines 294-320: one more iteration: trim, build the request, call the endpoint
IssueLLMCall ==
    /\ pc = "loop"
    /\ iteration < max_iterations
    /\ iteration' = iteration + 1
    /\ old_messages' = messages
    /\ messages' = TrimMessages(messages, max_history_messages)
    /\ request_messages' = BuildRequest(messages', is_complex_query)
    /\ llm_calls' = llm_calls + 1
    /\ pc' = "awaiting"
    /\ UNCHANGED <<max_history_messages, user_message, is_complex_query, pending,
                   outcome, llm_habit, odd>>
    /\ UNCHANGED outsideChat

\* faulty variant: the fallback text is stored as an assistant message
ReturnFallback_Stores ==
    /\ pc = "loop"
    /\ iteration >= max_iterations
    /\ outcome' = [kind |-> "returned", value |-> FallbackText]
    /\ pc' = "idle"
    /\ messages' = Append(messages, AssistantMsg(Response(FallbackText, <<>>)))
    /\ UNCHANGED <<max_history_messages, user_message, is_complex_query,
                   iteration, request_messages, pending, old_messages, llm_calls,
                   llm_habit, odd>>
    /\ UNCHANGED outsideChat

\* lines 360-365: the budget is used up
ReturnFallback ==
    /\ pc = "loop"
    /\ iteration >= max_iterations
    /\ outcome' = [kind |-> "returned", value |-> FallbackText]
    /\ pc' = "idle"
    /\ UNCHANGED <<messages, max_history_messages, user_message, is_complex_query,
                   iteration, request_messages, pending, old_messages, llm_calls,
                   llm_habit, odd>>
    /\ UNCHANGED outsideChat

\* faulty variant: the messages of the failed turn are taken back
LLMRaises_RollsBack ==
    /\ pc = "awaiting"
    /\ outcome' = [kind |-> "raised", value |-> "API Error"]
    /\ pc' = "idle"
    /\ request_messages' = <<>>
    /\ old_messages' = <<>>
    /\ messages' = SubSeq(messages, 1, LastUserOf(messages) - 1)
    /\ UNCHANGED <<max_history_messages, user_message, is_complex_query,
                   iteration, pending, llm_calls, llm_habit, odd>>
    /\ UNCHANGED outsideChat

\* faulty variant: a failed call is tried again
LLMRaises_Retry ==
    /\ pc = "awaiting"
    /\ pc' = "loop"
    /\ request_messages' = <<>>
    /\ old_messages' = <<>>
    /\ UNCHANGED <<messages, max_history_messages, user_message, is_complex_query,
                   iteration, pending, outcome, llm_calls, llm_habit, odd>>
    /\ UNCHANGED outsideChat

\* line 320 raises: the exception leaves chat()
LLMRaises ==
    /\ pc = "awaiting"
    /\ outcome' = [kind |-> "raised", value |-> "API Error"]
    /\ pc' = "idle"
    /\ request_messages' = <<>>
    /\ old_messages' = <<>>
    /\ UNCHANGED <<messages, max_history_messages, user_message, is_complex_query,
                   iteration, pending, llm_calls, llm_habit, odd>>
    /\ UNCHANGED outsideChat

\* faulty variant: a response without tool calls is returned even when it has no text
LLMResponds_ReturnsEmpty(response) ==
    /\ pc = "awaiting"
    /\ \/ response \notin NonFinalResponses /\ odd' = odd /\ llm_habit' = llm_habit
       \/ response \in NonFinalResponses /\ llm_habit = NoHabit
            /\ odd' = odd /\ llm_habit' = response
       \/ response = llm_habit /\ odd' = odd /\ llm_habit' = llm_habit
       \/ response \in NonFinalResponses \ {llm_habit} /\ llm_habit # NoHabit
            /\ odd < MaxOdd /\ odd' = odd + 1 /\ llm_habit' = llm_habit
    /\ messages' = Append(messages, AssistantMsg(response))
    /\ request_messages' = <<>>
    /\ old_messages' = <<>>
    /\ IF response.tool_calls # <<>>
       THEN /\ pending' = response.tool_calls
            /\ pc' = "tools"
            /\ outcome' = outcome
       ELSE IF TRUE
       THEN /\ pending' = pending
            /\ pc' = "idle"
            /\ outcome' = [kind |-> "returned", value |-> response.content]
       ELSE /\ pending' = pending
            /\ pc' = "loop"
            /\ outcome' = outcome
    /\ UNCHANGED <<max_history_messages, user_message, is_complex_query, iteration,
                   llm_calls>>
    /\ UNCHANGED outsideChat

\* lines 322-358: the response is stored, then its tool calls are taken up or its
\* text is returned
LLMResponds(response) ==
    /\ pc = "awaiting"
    /\ \/ response \notin NonFinalResponses /\ odd' = odd /\ llm_habit' = llm_habit
       \/ response \in NonFinalResponses /\ llm_habit = NoHabit
            /\ odd' = odd /\ llm_habit' = response
       \/ response = llm_habit /\ odd' = odd /\ llm_habit' = llm_habit
       \/ response \in NonFinalResponses \ {llm_habit} /\ llm_habit # NoHabit
            /\ odd < MaxOdd /\ odd' = odd + 1 /\ llm_habit' = llm_habit
    /\ messages' = Append(messages, AssistantMsg(response))
    /\ request_messages' = <<>>
    /\ old_messages' = <<>>
    /\ IF response.tool_calls # <<>>
       THEN /\ pending' = response.tool_calls
            /\ pc' = "tools"
            /\ outcome' = outcome
       ELSE IF response.content # NoContent
       THEN /\ pending' = pending
            /\ pc' = "idle"
            /\ outcome' = [kind |-> "returned", value |-> response.content]
       ELSE /\ pending' = pending
            /\ pc' = "loop"
            /\ outcome' = outcome
    /\ UNCHANGED <<max_history_messages, user_message, is_complex_query, iteration,
                   llm_calls>>
    /\ UNCHANGED outsideChat

\* lines 334-354: the next tool call of the response, in the order returned
ExecuteNextTool ==
    /\ pc = "tools"
    /\ pending # <<>>
    /\ LET tool_call == Head(pending)
           tool_result == _execute_tool_call(tool_call)
       IN  IF tool_result.raised
           THEN /\ outcome' = [kind |-> "raised", value |-> tool_result.text]
                /\ pc' = "idle"
                /\ pending' = <<>>
                /\ messages' = messages
           ELSE /\ messages' = AppendToolResult(messages, tool_call, tool_result.text)
                /\ pending' = Tail(pending)
                /\ pc' = IF Tail(pending) = <<>> THEN "loop" ELSE "tools"
                /\ outcome' = outcome
    /\ UNCHANGED <<max_history_messages, user_message, is_complex_query, iteration,
                   request_messages, old_messages, llm_calls, llm_habit, odd>>
    /\ UNCHANGED outsideChat

Next ==
    \/ Reset
    \/ \E text \in UserTexts : Converse(text)
    \/ IssueLLMCall
    \/ ReturnFallback
    \/ LLMRaises
    \/ \E response \in LLMResponses : LLMResponds(response)
    \/ ExecuteNextTool

Spec == Init /\ [][Next]_vars

-----------------------------------------------------------------------------
(* _trim_messages on its own: any transcript behind the system message *)

TailAlphabet ==
    { UserMsg("How do estates work?"),
      AssistantMsg(FinalText),
      AssistantMsg(TextAndTools),
      ToolMsg(tcSearch, "No results found for: EU5 estates"),
      ToolMsg(tcKnowledge, "Error: Knowledge file not found: mechanics/economy") }

TrimInputs ==
    UNION { { <<SystemMsg>> \o tail : tail \in [1..n -> TailAlphabet] } : n \in 0..MaxTail }

TrimInit ==
    /\ messages \in TrimInputs
    /\ max_history_messages \in 0..MaxCap
    /\ pc = "trim"
    /\ user_message = ""
    /\ is_complex_query = FALSE
    /\ iteration = 0
    /\ request_messages = <<>>
    /\ pending = <<>>
    /\ outcome = NoOutcome
    /\ old_messages = <<>>
    /\ llm_calls = 0
    /\ llm_habit = NoHabit
    /\ odd = 0
    /\ exec_call = NoCall
    /\ exec_result = NoResult
    /\ CacheConstructed(MaxSize)
    /\ ModuleImported
    /\ ConfigImported
    /\ KnowledgeImported

\* self._trim_messages()
TrimStep ==
    /\ pc = "trim"
    /\ old_messages' = messages
    /\ messages' = TrimMessages(messages, max_history_messages)
    /\ UNCHANGED <<max_history_messages, pc, user_message, is_complex_query, iteration,
                   request_messages, pending, outcome, llm_calls, llm_habit, odd>>
    /\ UNCHANGED outsideChat

TrimNext == TrimStep

TrimSpec == TrimInit /\ [][TrimNext]_vars

-----------------------------------------------------------------------------
(* _execute_tool_call on its own: any tool name with any arguments payload *)

ToolNames == {"query_knowledge", "web_search", "get_weather"}

ArgFields == {"category", "subcategory", "query", "num_results", "site"}

\* the values a member of the arguments object takes
ArgValues(f) ==
    IF f = "category"
    THEN {JStr("mechanics"), JStr("nations"), JStr("resources"), JStr("diplomacy"),
          JInt("7"), JNull}
    ELSE IF f = "subcategory" THEN {JStr("economy"), JStr("england"), JInt("2"), JNull}
    ELSE IF f = "query"
    THEN {JStr("EU5 estates"), JStr("EU5 outage"), JStr("EU5 colonies"), JInt("5"), JNull}
    ELSE IF f = "num_results" THEN {JInt("3"), JBool, JStr("3"), JNull}
    ELSE {JStr("wiki")}

\* a member that the object does not have
Absent == [type |-> "absent", val |-> ""]

Optional(f) == ArgValues(f) \cup {Absent}

\* the JSON object with the members of `choice` that are not Absent
ObjectOf(choice) ==
    Arguments("object", [f \in {g \in ArgFields : choice[g] # Absent} |-> choice[f]])

\* function.arguments: text that does not parse, a JSON array, or a JSON object with
\* any subset of the members
ArgumentPayloads ==
    {Arguments("invalid", <<>>), Arguments("array", <<>>)}
    \cup { ObjectOf([category |-> c, subcategory |-> s, query |-> q,
                     num_results |-> n, site |-> x]) :
             c \in Optional("category"), s \in Optional("subcategory"),
             q \in Optional("query"), n \in Optional("num_results"),
             x \in Optional("site") }

ToolCalls == {ToolCall("call_1", name, arguments) :
                 name \in ToolNames, arguments \in ArgumentPayloads}

ExecInit ==
    /\ messages = <<SystemMsg>>
    /\ max_history_messages = 0
    /\ pc = "exec"
    /\ user_message = ""
    /\ is_complex_query = FALSE
    /\ iteration = 0
    /\ request_messages = <<>>
    /\ pending = <<>>
    /\ outcome = NoOutcome
    /\ old_messages = <<>>
    /\ llm_calls = 0
    /\ llm_habit = NoHabit
    /\ odd = 0
    /\ exec_call \in ToolCalls
    /\ exec_result = NoResult
    /\ CacheConstructed(MaxSize)
    /\ ModuleImported
    /\ ConfigImported
    /\ KnowledgeImported

\* self._execute_tool_call(tool_call)
Execute ==
    /\ pc = "exec"
    /\ exec_result' = _execute_tool_call(exec_call)
    /\ pc' = "executed"
    /\ UNCHANGED <<messages, max_history_messages, user_message, is_complex_query,
                   iteration, request_messages, pending, outcome, old_messages,
                   llm_calls, llm_habit, odd, exec_call>>
    /\ UNCHANGED <<cacheVars, moduleVars, configVars, knowledgeVars>>

ExecNext == Execute

ExecSpec == ExecInit /\ [][ExecNext]_vars

-----------------------------------------------------------------------------
(* One LRUCache called from several threads *)

CacheInit ==
    /\ messages = <<SystemMsg>>
    /\ max_history_messages = 0
    /\ pc = "cache"
    /\ user_message = ""
    /\ is_complex_query = FALSE
    /\ iteration = 0
    /\ request_messages = <<>>
    /\ pending = <<>>
    /\ outcome = NoOutcome
    /\ old_messages = <<>>
    /\ llm_calls = 0
    /\ llm_habit = NoHabit
    /\ odd = 0
    /\ exec_call = NoCall
    /\ exec_result = NoResult
    /\ \E n \in 0..MaxSize : CacheConstructed(n)
    /\ ModuleImported
    /\ ConfigImported
    /\ KnowledgeImported

\* the fields of the object, as one record
CacheObject == Object(_cache, _hits, _misses, maxsize)

\* thread t calls a method of the cache and comes to its `with self._lock`; which
\* method, and with what arguments, shows to nobody before the lock is held
Invoke(t) ==
    /\ pc = "cache"
    /\ thread[t].at = "idle"
    /\ thread' = [thread EXCEPT ![t] = Goto(@, "waiting")]
    /\ UNCHANGED <<maxsize, _cache, _hits, _misses, _lock, serial, touched, gets_done>>
    /\ UNCHANGED <<messages, max_history_messages, pc, user_message, is_complex_query,
                   iteration, request_messages, pending, outcome, old_messages,
                   llm_calls, llm_habit, odd, execVars, moduleVars, configVars,
                   knowledgeVars>>

\* with self._lock: thread t gets the lock and is in the body of `call`
Acquire(t, call) ==
    /\ thread[t].at = "waiting"
    /\ CanAcquire(_lock, t)
    /\ call.op = "get" => _hits + _misses < MaxGets
    /\ _lock' = t
    /\ thread' = [thread EXCEPT ![t] = Frame(call, "enter", "", NotReturned)]
    /\ UNCHANGED <<maxsize, _cache, _hits, _misses, serial, touched, gets_done>>
    /\ UNCHANGED <<messages, max_history_messages, pc, user_message, is_complex_query,
                   iteration, request_messages, pending, outcome, old_messages,
                   llm_calls, llm_habit, odd, execVars, moduleVars, configVars,
                   knowledgeVars>>

\* thread t runs the next statement of the method it is in
StepThread(t) ==
    /\ thread[t].at \notin {"idle", "waiting", "return"}
    /\ LET next == Statement(CacheObject, thread[t])
       IN  /\ _cache' = next.o.cache
           /\ _hits' = next.o.hits
           /\ _misses' = next.o.misses
           /\ thread' = [thread EXCEPT ![t] = next.l]
    /\ UNCHANGED <<maxsize, _lock, serial, touched, gets_done>>
    /\ UNCHANGED <<messages, max_history_messages, pc, user_message, is_complex_query,
                   iteration, request_messages, pending, outcome, old_messages,
                   llm_calls, llm_habit, odd, execVars, moduleVars, configVars,
                   knowledgeVars>>

\* the method returns (or its exception leaves it): the with block releases the lock
Leave(t) ==
    /\ thread[t].at = "return"
    /\ _lock' = Free
    /\ LET done == Atomic(serial, thread[t].call)
       IN  /\ serial' = done.o
           /\ touched' = Touch(touched, thread[t].call, done.l.ret, KeysOf(done.o.cache))
    /\ gets_done' = CASE thread[t].call.op = "get" -> gets_done + 1
                       [] thread[t].call.op = "clear" -> 0
                       [] OTHER -> gets_done
    /\ thread' = [thread EXCEPT ![t] = NotCalling]
    /\ UNCHANGED <<maxsize, _cache, _hits, _misses>>
    /\ UNCHANGED <<messages, max_history_messages, pc, user_message, is_complex_query,
                   iteration, request_messages, pending, outcome, old_messages,
                   llm_calls, llm_habit, odd, execVars, moduleVars, configVars,
                   knowledgeVars>>

CacheNext ==
    \/ \E t \in Threads : Invoke(t)
    \/ \E t \in Threads, call \in CacheCalls : Acquire(t, call)
    \/ \E t \in Threads : StepThread(t)
    \/ \E t \in Threads : Leave(t)

CacheSpec == CacheInit /\ [][CacheNext]_vars

-----------------------------------------------------------------------------
(* knowledge_cache, search_cache and clear_all_caches() *)

ModuleInit ==
    /\ messages = <<SystemMsg>>
    /\ max_history_messages = 0
    /\ pc = "module"
    /\ user_message = ""
    /\ is_complex_query = FALSE
    /\ iteration = 0
    /\ request_messages = <<>>
    /\ pending = <<>>
    /\ outcome = NoOutcome
    /\ old_messages = <<>>
    /\ llm_calls = 0
    /\ llm_habit = NoHabit
    /\ odd = 0
    /\ exec_call = NoCall
    /\ exec_result = NoResult
    /\ CacheConstructed(MaxSize)
    /\ ModuleImported
    /\ ConfigImported
    /\ KnowledgeImported

\* get calls made on the two caches since they were last cleared
TotalGets == caches["knowledge"].hits + caches["knowledge"].misses
             + caches["search"].hits + caches["search"].misses

\* faulty variant: both names are bound to one object
Apply_Shared(cs, c, call) == [d \in CacheNames |-> Atomic(cs[c], call).o]

\* lines 65-66: a call on one of the two objects (each call is atomic, by its lock)
Apply(cs, c, call) == [cs EXCEPT ![c] = Atomic(cs[c], call).o]

\* faulty variant: the second statement clears the knowledge cache again
ClearAllOrder_KnowledgeTwice == <<"knowledge", "knowledge">>

\* lines 70-71: the caches clear_all_caches() clears, in order
ClearAllOrder == <<"knowledge", "search">>

\* knowledge_cache.<op>(...) or search_cache.<op>(...)
ModuleCall(c, call) ==
    /\ pc = "module"
    /\ cache_op.at = "done"
    /\ call.op = "get" => TotalGets < MaxGets
    /\ caches' = Apply(caches, c, call)
    /\ caches_before' = caches
    /\ cache_op' = CacheOp(call.op, c, "done")
    /\ UNCHANGED <<chatVars, execVars, cacheVars, configVars, knowledgeVars>>

\* clear_all_caches(), line 70: knowledge_cache.clear()
ClearAllFirst ==
    /\ pc = "module"
    /\ cache_op.at = "done"
    /\ caches' = Apply(caches, ClearAllOrder[1], Call("clear", "", ""))
    /\ caches_before' = caches
    /\ cache_op' = CacheOp("clear_all", "", "search")
    /\ UNCHANGED <<chatVars, execVars, cacheVars, configVars, knowledgeVars>>

\* clear_all_caches(), line 71: search_cache.clear()
ClearAllSecond ==
    /\ cache_op = CacheOp("clear_all", "", "search")
    /\ caches' = Apply(caches, ClearAllOrder[2], Call("clear", "", ""))
    /\ cache_op' = CacheOp("clear_all", "", "done")
    /\ UNCHANGED caches_before
    /\ UNCHANGED <<chatVars, execVars, cacheVars, configVars, knowledgeVars>>

ModuleNext ==
    \/ \E c \in CacheNames, call \in ModuleCalls : ModuleCall(c, call)
    \/ ClearAllFirst
    \/ ClearAllSecond

ModuleSpec == ModuleInit /\ [][ModuleNext]_vars

-----------------------------------------------------------------------------
(* get_config() and reset_config() *)

ConfigInit ==
    /\ messages = <<SystemMsg>>
    /\ max_history_messages = 0
    /\ pc = "config"
    /\ user_message = ""
    /\ is_complex_query = FALSE
    /\ iteration = 0
    /\ request_messages = <<>>
    /\ pending = <<>>
    /\ outcome = NoOutcome
    /\ old_messages = <<>>
    /\ llm_calls = 0
    /\ llm_habit = NoHabit
    /\ odd = 0
    /\ exec_call = NoCall
    /\ exec_result = NoResult
    /\ CacheConstructed(MaxSize)
    /\ ModuleImported
    /\ ConfigImported
    /\ KnowledgeImported

\* lines 181-186; an instance is named by the order of its construction
GetConfig(caller) ==
    /\ pc = "config"
    /\ IF NeedsInstance(_config)
       THEN /\ config_made < MaxInstances
            /\ _config' = config_made + 1
            /\ config_made' = config_made + 1
       ELSE UNCHANGED <<_config, config_made>>
    /\ config_got' = [config_got EXCEPT ![caller] = _config']
    /\ config_since_reset' = config_since_reset \cup {_config'}
    /\ UNCHANGED config_before_reset
    /\ UNCHANGED <<chatVars, execVars, cacheVars, moduleVars, knowledgeVars>>

\* lines 189-192; the callers keep the references they hold
ResetConfig ==
    /\ pc = "config"
    /\ _config' = NoConfig
    /\ config_before_reset' = config_before_reset \cup config_since_reset
    /\ config_since_reset' = {}
    /\ UNCHANGED <<config_made, config_got>>
    /\ UNCHANGED <<chatVars, execVars, cacheVars, moduleVars, knowledgeVars>>

ConfigNext ==
    \/ \E caller \in Callers : GetConfig(caller)
    \/ ResetConfig

ConfigSpec == ConfigInit /\ [][ConfigNext]_vars

-----------------------------------------------------------------------------
(* _is_complex_query on its own: texts put together from known parts *)

\* planning signals of one word each, in the two cases a user may type them
SignalWords == [lower |-> <<"roadmap", "timeline", "campaign", "contingency">>,
                upper |-> <<"ROADMAP", "Timeline", "CAMPAIGN", "Contingency">>]

SeparatorList == <<"and", "with", "while", "versus">>

Punctuation == ",;,;"

\* a word that holds no planning signal and is no separator
Filler == "tax"

\* how a text is put together: so many signals, separator words and commas or
\* semicolons, and filler words up to a total
Recipes ==
    [signals : 0..MaxParts, seps : 0..MaxParts, puncts : 0..MaxParts,
     fill : {"none", "short", "long"}, case : {"lower", "upper"}]

FillCount(r) ==
    CASE r.fill = "none" -> 0
      [] r.fill = "short" -> LongMessageWords - 1 - r.signals - r.seps
      [] r.fill = "long" -> LongMessageWords - r.signals - r.seps

RECURSIVE JoinWords(_)
JoinWords(words) ==
    IF words = <<>> THEN ""
    ELSE IF Len(words) = 1 THEN words[1]
    ELSE words[1] \o " " \o JoinWords(Tail(words))

TextOf(r) ==
    JoinWords([i \in 1..FillCount(r) |-> Filler]
              \o SubSeq(SignalWords[r.case], 1, r.signals)
              \o SubSeq(SeparatorList, 1, r.seps))
    \o SubSeq(Punctuation, 1, r.puncts)

RecipeText == [r \in Recipes |-> TextOf(r)]

ClassifyTexts == {RecipeText[r] : r \in Recipes}

ClassifyInit ==
    /\ messages = <<SystemMsg>>
    /\ max_history_messages = 0
    /\ pc = "classify"
    /\ user_message \in ClassifyTexts
    /\ is_complex_query = FALSE
    /\ iteration = 0
    /\ request_messages = <<>>
    /\ pending = <<>>
    /\ outcome = NoOutcome
    /\ old_messages = <<>>
    /\ llm_calls = 0
    /\ llm_habit = NoHabit
    /\ odd = 0
    /\ exec_call = NoCall
    /\ exec_result = NoResult
    /\ CacheConstructed(MaxSize)
    /\ ModuleImported
    /\ ConfigImported
    /\ KnowledgeImported

\* line 282: is_complex_query = self._is_complex_query(user_message)
Classify ==
    /\ pc = "classify"
    /\ is_complex_query' = IsComplexQuery(user_message)
    /\ pc' = "classified"
    /\ UNCHANGED <<messages, max_history_messages, user_message, iteration,
                   request_messages, pending, outcome, old_messages, llm_calls,
                   llm_habit, odd>>
    /\ UNCHANGED outsideChat

ClassifyNext == Classify

ClassifySpec == ClassifyInit /\ [][ClassifyNext]_vars

-----------------------------------------------------------------------------
(* Concurrent get_knowledge() calls on one knowledge base *)

\* what callers ask for: readable files, an unreadable one, a missing one, an unknown
\* subcategory, an unknown category, and no subcategory
LookupInputs ==
    { <<"mechanics", "economy">>, <<"mechanics", "society">>, <<"resources", "">>,
      <<"nations", "england">>, <<"mechanics", "government">>, <<"mechanics", "trade">>,
      <<"weather", "">>, <<"strategy", "">> }

KnowledgeInit ==
    /\ messages = <<SystemMsg>>
    /\ max_history_messages = 0
    /\ pc = "knowledge"
    /\ user_message = ""
    /\ is_complex_query = FALSE
    /\ iteration = 0
    /\ request_messages = <<>>
    /\ pending = <<>>
    /\ outcome = NoOutcome
    /\ old_messages = <<>>
    /\ llm_calls = 0
    /\ llm_habit = NoHabit
    /\ odd = 0
    /\ exec_call = NoCall
    /\ exec_result = NoResult
    /\ CacheConstructed(MaxSize)
    /\ ModuleImported
    /\ ConfigImported
    /\ KnowledgeImported

\* lines 102-165: the call and its validation, which returns without touching the cache
BeginLookup(t, category, subcategory) ==
    /\ pc = "knowledge"
    /\ lookup[t].at = "idle"
    /\ lookup' = [lookup EXCEPT ![t] =
                    IF Validates(category, subcategory)
                    THEN Lookup("get", category, Defaulted(category, subcategory),
                                NoLookupResult)
                    ELSE Lookup("done", category, subcategory,
                                get_knowledge(category, subcategory))]
    /\ UNCHANGED <<chatVars, execVars, cacheVars, moduleVars, configVars>>

\* lines 170-173: cached = knowledge_cache.get(cache_key), returned when it is not None
CacheGet(t) ==
    /\ lookup[t].at = "get"
    /\ TotalGets < MaxGets
    /\ LET got == Atomic(caches["knowledge"],
                         Call("get", CacheKey(lookup[t].category, lookup[t].subcategory), ""))
       IN  /\ caches' = [caches EXCEPT !["knowledge"] = got.o]
           /\ lookup' = [lookup EXCEPT ![t] =
                           IF got.l.ret.kind = "value"
                           THEN [@ EXCEPT !.at = "done", !.result = got.l.ret.value]
                           ELSE [@ EXCEPT !.at = "read"]]
    /\ UNCHANGED <<caches_before, cache_op>>
    /\ UNCHANGED <<chatVars, execVars, cacheVars, configVars>>

\* lines 175-185 and 191-195: the file is read and the result built, or the exception
\* of the read becomes an error result
ReadFile(t) ==
    /\ lookup[t].at = "read"
    /\ LET result == get_knowledge(lookup[t].category, lookup[t].subcategory)
       IN  lookup' = [lookup EXCEPT ![t] = [@ EXCEPT !.at = AfterRead(result),
                                                     !.result = result]]
    /\ UNCHANGED <<chatVars, execVars, cacheVars, moduleVars, configVars>>

\* lines 187-189: knowledge_cache.set(cache_key, result), inside the try block
CacheSet(t) ==
    /\ lookup[t].at = "set"
    /\ LET put == Atomic(caches["knowledge"],
                         Call("set", CacheKey(lookup[t].category, lookup[t].subcategory),
                              lookup[t].result))
       IN  /\ caches' = [caches EXCEPT !["knowledge"] = put.o]
           /\ lookup' = [lookup EXCEPT ![t] =
                           IF put.l.ret.kind = "KeyError"
                           THEN [@ EXCEPT !.at = "done",
                                          !.result = [status |-> "error", content |-> "",
                                                      source |-> "",
                                                      error |-> "Failed to read "
                                                                \o lookup[t].category \o "/"
                                                                \o lookup[t].subcategory]]
                           ELSE [@ EXCEPT !.at = "done"]]
    /\ UNCHANGED <<caches_before, cache_op>>
    /\ UNCHANGED <<chatVars, execVars, cacheVars, configVars>>

\* the return statement hands the result to the caller
EndLookup(t) ==
    /\ lookup[t].at = "done"
    /\ lookup' = [lookup EXCEPT ![t] = NotLooking]
    /\ UNCHANGED <<chatVars, execVars, cacheVars, moduleVars, configVars>>

KnowledgeNext ==
    \/ \E t \in Threads, input \in LookupInputs : BeginLookup(t, input[1], input[2])
    \/ \E t \in Threads : CacheGet(t)
    \/ \E t \in Threads : ReadFile(t)
    \/ \E t \in Threads : CacheSet(t)
    \/ \E t \in Threads : EndLookup(t)

KnowledgeSpec == KnowledgeInit /\ [][KnowledgeNext]_vars

-----------------------------------------------------------------------------
(* Vocabulary of the properties *)

NumUsers(t) == Cardinality(UserIndexSet(t))

LastUser(t) == SetMax(UserIndexSet(t))

ToolIndexSet(t) == {i \in 1..Len(t) : t[i].role = "tool"}

HasCallId(msg, id) == \E k \in 1..Len(msg.tool_calls) : msg.tool_calls[k].id = id

\* the tool message at i answers a call of an assistant message of its own turn group
Resolves(t, i) ==
    \E j \in 1..(i - 1) :
        /\ t[j].role = "assistant"
        /\ HasCallId(t[j], t[i].tool_call_id)
        /\ \A m \in j..i : t[m].role # "user"
        /\ \E u \in 1..(j - 1) : t[u].role = "user"

WellFormed(t) == \A i \in ToolIndexSet(t) : Resolves(t, i)

\* new is old, or old's first message followed by old from one of its user messages on
WholeGroupsRemoved(old, new) ==
    \/ new = old
    \/ \E u \in UserIndexSet(old) : new = <<old[1]>> \o SubSeq(old, u, Len(old))

\* a trim has just run; old_messages is what it was given
Trimmed == old_messages # <<>>

\* C3: after trim() on a well-formed transcript every remaining tool message still
\* answers a call of a retained assistant message of its own turn group, and what
\* was removed is whole turn groups from the old end
C3_TrimKeepsToolChains ==
    (Trimmed /\ WellFormed(old_messages))
        => (WellFormed(messages) /\ WholeGroupsRemoved(old_messages, messages))

C3_Witness ==
    /\ Trimmed
    /\ WellFormed(old_messages)
    /\ ToolIndexSet(old_messages) # {}
    /\ Len(messages) < Len(old_messages)
    /\ ToolIndexSet(messages) # {}

\* C4: after trim() message 0 is the same, unchanged system message
C4_TrimKeepsSystemMessage ==
    (Trimmed /\ old_messages[1].role = "system")
        => (messages[1] = old_messages[1] /\ messages[1].role = "system")

C4_Witness ==
    /\ Trimmed
    /\ old_messages[1] = SystemMsg
    /\ Len(messages) < Len(old_messages)
    /\ messages[1] = SystemMsg

\* C5: with one turn group, or no user message at all, trim() leaves the transcript
\* unchanged even when it is longer than max_history_messages
C5_TrimKeepsOnlyGroup ==
    (Trimmed /\ NumUsers(old_messages) <= 1) => messages = old_messages

C5_Witness ==
    /\ Trimmed
    /\ NumUsers(old_messages) = 1
    /\ Len(old_messages) > max_history_messages
    /\ messages = old_messages

\* C6: a transcript of at most max_history_messages messages is left as it is
C6_TrimNoOpUnderCap ==
    (Trimmed /\ Len(old_messages) <= max_history_messages) => messages = old_messages

C6_Witness ==
    /\ Trimmed
    /\ Len(old_messages) = max_history_messages
    /\ NumUsers(old_messages) >= 2
    /\ messages = old_messages

-----------------------------------------------------------------------------
(* Properties of the controller *)

\* messages of the turn group that starts at user position u
GroupSize(t, u) ==
    LET later == {v \in UserIndexSet(t) : v > u}
    IN  (IF later = {} THEN Len(t) + 1 ELSE SetMin(later)) - u

MaxGroupSize(t) == SetMax({GroupSize(t, u) : u \in UserIndexSet(t)})

\* chat() has ended and the transcript still holds its turn
TurnEnded == pc = "idle" /\ outcome.kind # "none" /\ UserIndexSet(messages) # {}

\* the assistant messages of the last turn group
LastGroupAssistants(t) == {i \in LastUser(t)..Len(t) : t[i].role = "assistant"}

\* C1 as stated: when every response of the turn carried tool calls, chat() made
\* exactly max_iterations LLM calls and returned the fallback text
C1_AlwaysToolsEndsInFallback ==
    ( /\ TurnEnded
      /\ outcome # [kind |-> "raised", value |-> "API Error"]
      /\ \A i \in LastGroupAssistants(messages) : messages[i].tool_calls # <<>> )
        => /\ outcome = [kind |-> "returned", value |-> FallbackText]
           /\ llm_calls = max_iterations

\* C2 as stated: chat() issues at most max_iterations LLM calls and ends by returning
\* the text of a response without tool calls, by returning the fallback text, or by
\* propagating the exception of the LLM call
C2_ThreeOutcomes ==
    TurnEnded =>
        /\ llm_calls <= max_iterations
        /\ \/ /\ outcome.kind = "returned"
              /\ outcome.value # NoContent
              /\ messages[Len(messages)].role = "assistant"
              /\ messages[Len(messages)].tool_calls = <<>>
              /\ messages[Len(messages)].content = outcome.value
           \/ outcome = [kind |-> "returned", value |-> FallbackText]
           \/ outcome = [kind |-> "raised", value |-> "API Error"]

\* C7 as stated: after a trim of a transcript with two or more turn groups the
\* transcript is no longer than max(max_history_messages, size of one turn group);
\* read for a cap that has room for the system message and a user message, and
\* with the largest turn group of the transcript as the "one turn group"
C7_BoundByOneGroup ==
    (Trimmed /\ NumUsers(old_messages) >= 2 /\ max_history_messages >= 2)
        => Len(messages) <= Max(max_history_messages, MaxGroupSize(old_messages))

\* C7, amended: after a trim of a transcript with two or more turn groups the
\* transcript is no longer than max(max_history_messages, 1 + size of its last turn
\* group): the system message is kept on top of the last turn group
C7_BoundBySystemPlusGroup ==
    (Trimmed /\ NumUsers(old_messages) >= 2)
        => Len(messages) <=
             Max(max_history_messages, 1 + GroupSize(messages, LastUser(messages)))

C7_Witness ==
    /\ pc = "awaiting"
    /\ Trimmed
    /\ NumUsers(old_messages) >= 2
    /\ Len(messages) < Len(old_messages)
    /\ Len(messages) > max_history_messages

\* C8: every tool message carries the id of a call of the nearest preceding
\* assistant message, which lies in the same turn group
C8_ToolMessagesAnswerNearestAssistant ==
    \A i \in ToolIndexSet(messages) :
        /\ \E j \in 1..(i - 1) : messages[j].role = "assistant"
        /\ LET j == SetMax({a \in 1..(i - 1) : messages[a].role = "assistant"})
           IN  /\ HasCallId(messages[j], messages[i].tool_call_id)
               /\ \A m \in j..i : messages[m].role # "user"

C8_Witness ==
    /\ Trimmed
    /\ Len(messages) < Len(old_messages)
    /\ NumUsers(messages) >= 2
    /\ ToolIndexSet(messages) # {}

\* the tool messages that have to follow the assistant message at j: one per call,
\* in the order of the calls, with the call's id, and no further tool message
AnsweredInOrder(t, j, calls) ==
    /\ j + Len(calls) <= Len(t)
    /\ \A k \in 1..Len(calls) :
          t[j + k].role = "tool" /\ t[j + k].tool_call_id = calls[k].id
    /\ (j + Len(calls) = Len(t) \/ t[j + Len(calls) + 1].role # "tool")

\* C9 as stated: the tool calls of a response are executed one at a time in the
\* order returned, each leaves one tool message with its id, and all of them are in
\* the transcript before the next LLM call
C9_ToolCallsAnsweredInOrder ==
    \A j \in 1..Len(messages) :
        (messages[j].role = "assistant" /\ messages[j].tool_calls # <<>>)
            => IF pc = "tools" /\ j = SetMax({a \in 1..Len(messages) : messages[a].role = "assistant"})
               THEN LET calls == messages[j].tool_calls
                        done == Len(calls) - Len(pending)
                    IN  /\ done >= 0
                        /\ pending = SubSeq(calls, done + 1, Len(calls))
                        /\ AnsweredInOrder(messages, j, SubSeq(calls, 1, done))
               ELSE AnsweredInOrder(messages, j, messages[j].tool_calls)

\* C10: the transcript holds one system message, at index 0; no stored message is
\* the complex-mode directive; every stored user message is a raw user text and the
\* latest one is the text passed to chat()
C10_ComplexModeNotPersisted ==
    /\ {i \in 1..Len(messages) : messages[i].role = "system"} = {1}
    /\ \A i \in 1..Len(messages) : messages[i].content # ComplexModeInstruction
    /\ \A i \in UserIndexSet(messages) : messages[i].content \in UserTexts
    /\ UserIndexSet(messages) # {} => messages[LastUser(messages)].content = user_message

C10_Witness ==
    /\ pc = "idle"
    /\ outcome.kind = "returned"
    /\ is_complex_query
    /\ UserIndexSet(messages) # {}
    /\ IsComplexQuery(user_message)
    /\ messages[LastUser(messages)].content = user_message
    /\ \E i \in UserIndexSet(messages) : ~IsComplexOf[messages[i].content]

-----------------------------------------------------------------------------
\* C11: for every LLM call of a chat(user_message), the outgoing message list is the
\* transcript as trim left it, with the complex-mode directive as a system message at
\* index 1 (the second position) exactly when the classifier accepts the raw user text;
\* the classification is the same in every iteration of the turn.
C11_RequestIsTrimmedTranscript ==
    /\ pc \in {"loop", "awaiting", "tools"} => is_complex_query = IsComplexOf[user_message]
    /\ pc = "awaiting" =>
         /\ messages = TrimMessages(old_messages, max_history_messages)
         /\ IF IsComplexOf[user_message]
            THEN /\ Len(request_messages) = Len(messages) + 1
                 /\ request_messages[1] = messages[1]
                 /\ request_messages[2].role = "system"
                 /\ request_messages[2].content = ComplexModeInstruction
                 /\ \A i \in 2..Len(messages) : request_messages[i + 1] = messages[i]
            ELSE request_messages = messages

\* a complex turn at its second or later call, after trim has dropped messages
C11_Witness ==
    /\ pc = "awaiting"
    /\ is_complex_query
    /\ llm_calls >= 2
    /\ Len(messages) < Len(old_messages)
    /\ Len(request_messages) = Len(messages) + 1

-----------------------------------------------------------------------------
(* Vocabulary of the executor properties *)

StartsWith(s, prefix) == Len(s) >= Len(prefix) /\ SubSeq(s, 1, Len(prefix)) = prefix

EndsWith(s, suffix) ==
    Len(s) >= Len(suffix) /\ SubSeq(s, Len(s) - Len(suffix) + 1, Len(s)) = suffix

Executed == pc = "executed"

\* a member of the arguments object with a value other than null
Present(arguments, f) == HasField(arguments, f) /\ arguments.fields[f].type # "null"

TypeOf(arguments, f) == arguments.fields[f].type

RegisteredTools == {"query_knowledge", "web_search"}

\* the payloads the validation of each tool is said to reject
Rejectable(tool_call) ==
    LET a == tool_call.arguments IN
    /\ a.json # "invalid"
    /\ \/ /\ tool_call.name = "query_knowledge"
          /\ \/ ~HasField(a, "category")
             \/ TypeOf(a, "category") # "string"
             \/ Present(a, "subcategory") /\ TypeOf(a, "subcategory") # "string"
       \/ /\ tool_call.name = "web_search"
          /\ \/ ~HasField(a, "query")
             \/ TypeOf(a, "query") # "string"
             \/ Present(a, "num_results") /\ TypeOf(a, "num_results") # "integer"

\* C12: _execute_tool_call returns a string and raises nothing, whatever the tool
\* name, the arguments payload (unparseable, not an object, members missing, wrongly
\* typed or additional, or valid) and the gateway outcome.
C12_ExecuteNeverRaises == Executed => ~exec_result.raised

\* C13: a query_knowledge payload with category missing or not a string, or with a
\* subcategory that is not a string, and a web_search payload with query missing or not
\* a string, or with a num_results that is not an integer, gets a textual error and no
\* gateway is called.
C13_RejectedBeforeGateway ==
    (Executed /\ Rejectable(exec_call)) =>
        /\ exec_result.gateway = "none"
        /\ ~exec_result.raised
        /\ StartsWith(exec_result.text, "Error: invalid tool arguments")

\* C14: arguments that do not parse give the parse-failure error for every tool name,
\* registered or not, and no gateway is called; "Unknown tool: <name>" is returned
\* exactly for an unregistered name whose arguments parse.
C14_ParseBeforeDispatch ==
    Executed =>
        LET unparseable == exec_call.arguments.json = "invalid"
            unregistered == exec_call.name \notin RegisteredTools
        IN  /\ unparseable =>
                 /\ ~exec_result.raised
                 /\ exec_result.gateway = "none"
                 /\ StartsWith(exec_result.text,
                               "Error: invalid tool arguments (JSON decode failed")
            /\ StartsWith(exec_result.text, "Unknown tool: ")
                    <=> (unregistered /\ ~unparseable)
            /\ (unregistered /\ ~unparseable) =>
                 /\ exec_result.text = "Unknown tool: " \o exec_call.name
                 /\ exec_result.gateway = "none"

\* an unregistered tool name with arguments that do not parse
C14_Witness ==
    /\ Executed
    /\ exec_call.name = "get_weather"
    /\ exec_call.arguments.json = "invalid"
    /\ exec_result.text = JSONDecodeFailed

\* C15: what a call that reaches a gateway returns is fixed by the gateway's outcome:
\* knowledge success gives the content behind an annotation naming the local knowledge
\* base and the source, needs-specificity gives the listing unchanged, a knowledge error
\* gives "Error: ..."; no search results give "No results found for: <query>" with the
\* query as passed, a raising search gives "Web search error: ...".
C15_GatewayOutcomeMapping ==
    LET a == exec_call.arguments
        text == exec_result.text
    IN  /\ (Executed /\ exec_result.gateway = "knowledge") =>
             LET result == get_knowledge(StringField(a, "category"),
                                         StringField(a, "subcategory"))
             IN  /\ result.status = "success" =>
                      /\ StartsWith(text, "**Source: Local Knowledge Base (" \o result.source)
                      /\ EndsWith(text, result.content)
                 /\ result.status = "list" => text = result.content
                 /\ result.status = "error" =>
                      StartsWith(text, "Error: ") /\ EndsWith(text, result.error)
        /\ (Executed /\ exec_result.gateway = "search") =>
             LET got == search_eu5_wiki(StringField(a, "query"))
             IN  /\ got.raises => StartsWith(text, "Web search error: ")
                 /\ (~got.raises /\ got.results = <<>>) =>
                      text = "No results found for: " \o a.fields["query"].val

\* a category without subcategory: the knowledge gateway asks for more specificity
C15_Witness ==
    /\ Executed
    /\ exec_result.gateway = "knowledge"
    /\ get_knowledge(StringField(exec_call.arguments, "category"),
                     StringField(exec_call.arguments, "subcategory")).status = "list"
    /\ StartsWith(exec_result.text, "Please specify a subcategory")

-----------------------------------------------------------------------------
\* C16: when the LLM call raises, chat() ends with that exception and does not retry:
\* the step that leaves an LLM call without a stored response ends chat() with the
\* exception raised, and from then on that chat() makes no LLM call and executes no
\* tool call.
C16_LLMFailurePropagates ==
    /\ [][(pc = "awaiting" /\ Len(messages') = Len(messages)) =>
            /\ pc' = "idle"
            /\ outcome' = [kind |-> "raised", value |-> "API Error"]
            /\ messages' = messages
            /\ llm_calls' = llm_calls]_vars
    /\ [](outcome = [kind |-> "raised", value |-> "API Error"] =>
            /\ pc = "idle"
            /\ pending = <<>>
            /\ llm_calls = iteration)

\* the second or a later LLM call of a turn fails, after tool calls were executed
C16_Witness ==
    /\ pc = "idle"
    /\ outcome = [kind |-> "raised", value |-> "API Error"]
    /\ llm_calls >= 2
    /\ messages[Len(messages)].role = "tool"

-----------------------------------------------------------------------------
(* Vocabulary of the cache properties *)

InCall(t, op) == thread[t].call.op = op

\* thread t has run its method to the end and is about to give the result back:
\* `serial` is the cache the call started from, the fields are what it leaves
AtReturn(t, op) == thread[t].at = "return" /\ InCall(t, op)

Quiet == \A t \in Threads : thread[t].at \in {"idle", "waiting"}

\* C17: the cache is linearizable: under every interleaving of get, set, clear and
\* stats calls of several threads, a call starts from the cache that the calls completed
\* before it leave when run one by one, returns what the same call returns when run
\* alone from there, and leaves the contents, recency order and counters that run
\* leaves; no call starts from a cache with an entry evicted and its successor not yet
\* inserted, or with a counter ahead of the contents.
C17_Linearizable ==
    /\ \A t \in Threads : thread[t].at = "enter" => CacheObject = serial
    /\ \A t \in Threads : thread[t].at = "return" =>
           LET alone == Atomic(serial, thread[t].call)
           IN  CacheObject = alone.o /\ thread[t].ret = alone.l.ret
    /\ Quiet => CacheObject = serial

\* one thread has evicted an entry of a full cache and not yet inserted the new one,
\* while the other thread's call waits for the lock
C17_Witness ==
    \E t, u \in Threads :
        /\ t # u
        /\ InCall(t, "set") /\ thread[t].at = "insert"
        /\ Len(_cache) < Len(serial.cache)
        /\ thread[u].at = "waiting"

\* thread t has run set() of a key the cache did not hold, on a cache that was full
SetOnFull(t) ==
    /\ AtReturn(t, "set")
    /\ maxsize >= 1
    /\ Len(serial.cache) = maxsize
    /\ thread[t].call.key \notin KeysOf(serial.cache)

\* C18: in every state that get, set, clear and stats calls in any order or
\* interleaving reach on a cache of capacity N >= 1, the number of entries is at most
\* N, and stats() returns that number as size.
C18_SizeWithinCapacity ==
    maxsize >= 1 =>
        /\ Len(_cache) <= maxsize
        /\ Cardinality(KeysOf(_cache)) = Len(_cache)
        /\ \A t \in Threads : AtReturn(t, "stats") =>
               /\ thread[t].ret.kind = "stats"
               /\ thread[t].ret.stats.size = Len(_cache)

\* set() of a new key on a full cache of capacity 2 or more has run to its end
C18_Witness ==
    \E t \in Threads : SetOnFull(t) /\ maxsize >= 2 /\ Len(_cache) = maxsize

\* C19: eviction takes the least recently touched entry, a get hit and a set both
\* counting as a touch: when set inserts a new key into a full cache, the entry removed
\* is the one whose latest touch is oldest and every other entry stays with its value
\* (capacity 2: set(a), set(b), get(a), set(c) leaves a and c, not b).
C19_EvictsLeastRecentlyTouched ==
    \A t \in Threads : SetOnFull(t) =>
        LET before == KeysOf(serial.cache)
            oldest == touched[1]
        IN  /\ oldest \in before
            /\ KeysOf(_cache) = (before \ {oldest}) \cup {thread[t].call.key}
            /\ \A k \in before \ {oldest} : ValueOf(_cache, k) = ValueOf(serial.cache, k)
            /\ ValueOf(_cache, thread[t].call.key) = thread[t].call.value

\* capacity 2, b touched before a, one get hit so far: set(c) has left a and c
C19_Witness ==
    \E t \in Threads :
        /\ SetOnFull(t)
        /\ maxsize = 2
        /\ thread[t].call.key = "c"
        /\ touched = <<"b", "a">>
        /\ serial.hits = 1 /\ serial.misses = 0
        /\ KeysOf(_cache) = {"a", "c"}

\* C20: after clear() both counters are 0; a get of an absent key raises misses by
\* exactly 1 and leaves the size (and hits) as they were; a get of a present key raises
\* hits by exactly 1 and returns the stored value; stats() returns the current size,
\* the capacity, hits and misses.
C20_HitMissAccounting ==
    \A t \in Threads :
        LET key == thread[t].call.key
            ret == thread[t].ret
        IN  /\ AtReturn(t, "clear") => _hits = 0 /\ _misses = 0
            /\ AtReturn(t, "stats") =>
                   ret = Ret("stats", "", Stats(Len(serial.cache), maxsize,
                                                serial.hits, serial.misses))
            /\ (AtReturn(t, "get") /\ key \notin KeysOf(serial.cache)) =>
                   /\ _misses = serial.misses + 1
                   /\ _hits = serial.hits
                   /\ Len(_cache) = Len(serial.cache)
                   /\ ret = RetNone
            /\ (AtReturn(t, "get") /\ key \in KeysOf(serial.cache)) =>
                   /\ _hits = serial.hits + 1
                   /\ _misses = serial.misses
                   /\ ret = Ret("value", ValueOf(serial.cache, key), NoStats)

\* after one miss, a get of a key set since then is the first hit
C20_Witness ==
    \E t \in Threads :
        /\ AtReturn(t, "get")
        /\ thread[t].ret.kind = "value"
        /\ serial.misses = 1 /\ serial.hits = 0
        /\ _hits = 1 /\ _misses = 1

-----------------------------------------------------------------------------
\* C21: a get of an absent key changes nothing but the miss counter: the entries,
\* their values, their recency order and the hit counter are after the call what they
\* were before it.
C21_MissOnlyCounts ==
    \A t \in Threads :
        (AtReturn(t, "get") /\ thread[t].call.key \notin KeysOf(serial.cache)) =>
            CacheObject = [serial EXCEPT !.misses = serial.misses + 1]

\* a miss on a cache that holds two entries and has counted a hit
C21_Witness ==
    \E t \in Threads :
        /\ AtReturn(t, "get")
        /\ thread[t].call.key \notin KeysOf(serial.cache)
        /\ Len(serial.cache) = 2
        /\ serial.hits >= 1
        /\ _misses = serial.misses + 1

-----------------------------------------------------------------------------
-----------------------------------------------------------------------------
(* Vocabulary of the module-level cache properties *)

\* no entries, both counters zero, the capacity it had
ClearedState(c) ==
    /\ caches[c].cache = <<>>
    /\ caches[c].hits = 0
    /\ caches[c].misses = 0
    /\ caches[c].maxsize = caches_before[c].maxsize

Used(o) == o.cache # <<>> /\ o.hits + o.misses >= 1

\* C23: after clear() a cache has no entries and both counters are zero, whatever it
\* held before, and its capacity is what it was; clear_all_caches() brings the knowledge
\* cache and the search cache both to that state.
C23_ClearEmptiesAndZeroes ==
    /\ \A c \in CacheNames : cache_op = CacheOp("clear", c, "done") => ClearedState(c)
    /\ cache_op = CacheOp("clear_all", "", "done") => \A c \in CacheNames : ClearedState(c)

\* clear_all_caches() has run on two caches that both held entries and counts
C23_Witness ==
    /\ cache_op = CacheOp("clear_all", "", "done")
    /\ \A c \in CacheNames : Used(caches_before[c])

\* C24: the knowledge cache and the search cache are independent: a get, set or clear
\* (or stats) on one leaves the entries, recency order, capacity and counters of the
\* other as they were; only clear_all_caches() changes both.
C24_CachesIndependent ==
    /\ \A c \in CacheNames :
           (cache_op.on = c /\ cache_op.name \in {"get", "set", "clear", "stats"}) =>
               \A d \in CacheNames \ {c} : caches[d] = caches_before[d]
    /\ (\A c \in CacheNames : caches[c] # caches_before[c]) => cache_op.name = "clear_all"

\* the knowledge cache is cleared while the search cache holds entries and counts
C24_Witness ==
    /\ cache_op = CacheOp("clear", "knowledge", "done")
    /\ Used(caches_before["knowledge"])
    /\ Used(caches["search"])

\* C28: the configuration is a resettable singleton: between two reset_config() calls
\* every get_config(), from any caller, returns the same instance; the first
\* get_config() after a reset_config() returns an instance no earlier call returned; and
\* reset_config() can always be called, also right after another reset_config().
C28_ResettableSingleton ==
    /\ Cardinality(config_since_reset) <= 1
    /\ config_since_reset # {} => config_since_reset = {_config}
    /\ config_since_reset \cap config_before_reset = {}
    /\ pc = "config" => ENABLED ResetConfig

\* two callers hold the present instance, a third still holds one from before a reset,
\* and there have been two resets with instances in between
C28_Witness ==
    /\ config_got["agent"] \in config_since_reset
    /\ config_got["cli"] \in config_since_reset
    /\ config_got["tests"] \in config_before_reset
    /\ Cardinality(config_before_reset) >= 2

\* a step of reset(): the only step that starts and ends outside chat()
ResetStep == pc = "idle" /\ pc' = "idle"

\* the step in which the first endpoint call of a turn is answered by text, the turn
\* having started on a transcript that held the system message alone
FirstAnswerAfterReset ==
    /\ pc = "awaiting"
    /\ llm_calls = 1
    /\ old_messages = <<SystemMsg, UserMsg(user_message)>>
    /\ pc' = "idle"
    /\ outcome'.kind = "returned"

\* C25: after reset() the transcript is exactly one message, the system persona; a
\* converse() that follows reset() and is answered by text on the first endpoint call
\* leaves exactly three messages: system, user, assistant.
C25_ResetThenOneTurn ==
    [][ /\ ResetStep => messages' = <<SystemMsg>>
        /\ FirstAnswerAfterReset =>
              /\ Len(messages') = 3
              /\ messages'[1] = SystemMsg
              /\ messages'[2] = UserMsg(user_message)
              /\ messages'[3].role = "assistant"
              /\ messages'[3].content = outcome'.value ]_vars

\* reset() has run after a turn that returned an answer
C25_Witness ==
    /\ pc = "idle"
    /\ messages = <<SystemMsg>>
    /\ outcome.kind = "returned"

\* (the second half happens) a turn on a fresh transcript answered at the first call
C25_OneTurnReached ==
    /\ pc = "idle"
    /\ llm_calls = 1
    /\ outcome.kind = "returned"
    /\ messages = <<SystemMsg, UserMsg(user_message), AssistantMsg(FinalText)>>

-----------------------------------------------------------------------------
(* Vocabulary of the classifier properties *)

\* the words of a text put together by a recipe: a text of punctuation alone is one word
WordsIn(r) ==
    IF FillCount(r) + r.signals + r.seps = 0 /\ r.puncts > 0
    THEN 1
    ELSE FillCount(r) + r.signals + r.seps

RecipesOf(text) == {r \in Recipes : RecipeText[r] = text}

C27_StructureAloneNotComplex ==
    pc = "classified" =>
        \A r \in RecipesOf(user_message) : r.signals = 0 => ~is_complex_query

-----------------------------------------------------------------------------
(* Further properties of _trim_messages *)

FirstUser(t) == SetMin(UserIndexSet(t))

\* the system message followed by everything from position u on
SuffixFrom(t, u) == <<t[1]>> \o SubSeq(t, u, Len(t))

\* length of SuffixFrom(t, u)
SuffixLen(t, u) == Len(t) - u + 2

\* C29: trim() drops the fewest oldest turn groups that suffice: when the transcript is
\* over the cap and some suffix that starts at a user message other than the first
\* fits, what is retained is the system message followed by the longest such suffix: it
\* starts at a user message, leaves out at least the oldest turn group, is no longer
\* than the cap, and keeping one more turn group would exceed the cap (for the oldest
\* turn group: in a transcript whose first turn group follows the system message
\* directly, as in every transcript chat() builds).
C29_FewestGroupsDropped ==
    (/\ Trimmed
     /\ Len(old_messages) > max_history_messages
     /\ NumUsers(old_messages) >= 2
     /\ \E u \in UserIndexSet(old_messages) \ {FirstUser(old_messages)} :
            SuffixLen(old_messages, u) <= max_history_messages)
    => \E u \in UserIndexSet(old_messages) :
           /\ u > FirstUser(old_messages)
           /\ messages = SuffixFrom(old_messages, u)
           /\ messages[2].role = "user"
           /\ Len(messages) <= max_history_messages
           /\ \A v \in UserIndexSet(old_messages) :
                  (v < u /\ (v > FirstUser(old_messages) \/ old_messages[2].role = "user"))
                      => SuffixLen(old_messages, v) > max_history_messages

\* of three turn groups the oldest one is dropped and two are retained
C29_Witness ==
    /\ Trimmed
    /\ Len(old_messages) > max_history_messages
    /\ NumUsers(old_messages) = 3
    /\ old_messages[2].role = "user"
    /\ NumUsers(messages) = 2
    /\ Len(messages) <= max_history_messages

\* C30: when the transcript is over the cap, holds two or more turn groups, and the
\* system message with the last turn group alone exceeds the cap, trim() retains
\* exactly the system message and the complete last turn group.
C30_FallbackKeepsLastGroup ==
    (/\ Trimmed
     /\ Len(old_messages) > max_history_messages
     /\ NumUsers(old_messages) >= 2
     /\ 1 + GroupSize(old_messages, LastUser(old_messages)) > max_history_messages)
    => /\ messages = SuffixFrom(old_messages, LastUser(old_messages))
       /\ Len(messages) = 1 + GroupSize(old_messages, LastUser(old_messages))

\* the last turn group of several holds a tool exchange and is larger than the cap
C30_Witness ==
    /\ Trimmed
    /\ NumUsers(old_messages) >= 2
    /\ max_history_messages >= 2
    /\ GroupSize(old_messages, LastUser(old_messages)) >= 3
    /\ 1 + GroupSize(old_messages, LastUser(old_messages)) > max_history_messages
    /\ Len(messages) < Len(old_messages)
    /\ messages = SuffixFrom(old_messages, LastUser(old_messages))

-----------------------------------------------------------------------------
(* Further properties of the controller *)

LastAssistant(t) == SetMax({a \in 1..Len(t) : t[a].role = "assistant"})

\* an assistant message that carries both text and tool calls
TextWithCalls(msg) ==
    msg.role = "assistant" /\ msg.content # NoContent /\ msg.tool_calls # <<>>

\* C31 as stated: tool calls take precedence over text: when a response carries both
\* text and tool calls, chat() executes the tool calls and continues the loop (once
\* the calls are no longer being executed, every one of them has its tool message), and
\* the text chat() returns is that of a response without tool calls.
C31_ToolCallsBeforeText ==
    /\ \A j \in 1..Len(messages) :
           (TextWithCalls(messages[j]) /\ ~(pc = "tools" /\ j = LastAssistant(messages)))
               => AnsweredInOrder(messages, j, messages[j].tool_calls)
    /\ (TurnEnded /\ outcome.kind = "returned" /\ outcome.value # FallbackText)
           => /\ messages[Len(messages)].role = "assistant"
              /\ messages[Len(messages)].tool_calls = <<>>
              /\ messages[Len(messages)].content = outcome.value

\* a step that stores a degenerate response: no tool calls and no text
DegenerateStored ==
    /\ pc = "awaiting"
    /\ messages' = Append(messages, AssistantMsg(Degenerate))

\* C32: a degenerate assistant response (no tool calls, no text) is appended to the
\* transcript, uses up one iteration of the budget and makes chat() call the LLM
\* again; when the responses stay degenerate to the end, chat() returns the fallback
\* text after max_iterations LLM calls in total.
C32_DegenerateLoopsAgain ==
    /\ [][ /\ DegenerateStored =>
                /\ pc' = "loop"
                /\ outcome' = NoOutcome
                /\ iteration' = llm_calls
           /\ (pc = "loop" /\ iteration < max_iterations) =>
                /\ pc' = "awaiting"
                /\ llm_calls' = llm_calls + 1
                /\ iteration' = iteration + 1 ]_vars
    /\ []( ( /\ TurnEnded
             /\ outcome.kind = "returned"
             /\ messages[Len(messages)] = AssistantMsg(Degenerate) )
           => /\ outcome.value = FallbackText
              /\ llm_calls = max_iterations )

\* a turn whose responses were all degenerate has ended with the fallback text
C32_Witness ==
    /\ TurnEnded
    /\ outcome = [kind |-> "returned", value |-> FallbackText]
    /\ llm_calls = max_iterations
    /\ Cardinality(LastGroupAssistants(messages)) = max_iterations
    /\ \A i \in LastGroupAssistants(messages) : messages[i] = AssistantMsg(Degenerate)

\* the tool messages of the last turn group
LastGroupTools(t) == {i \in ToolIndexSet(t) : i > LastUser(t)}

\* the tool calls requested in the last turn group, each named by the position of its
\* assistant message and its place among that message's calls
LastGroupCalls(t) ==
    UNION { {<<i, k>> : k \in 1..Len(t[i].tool_calls)} : i \in LastGroupAssistants(t) }

\* chat() has returned the text of a response
ReturnedText == TurnEnded /\ outcome.kind = "returned" /\ outcome.value # FallbackText

\* C33: every assistant message the LLM returns is appended to the transcript before
\* its tool calls are executed or its text is returned: while tool calls are executed
\* their assistant message is already stored; when chat() returns a final text the last
\* message is the assistant message with that text and the turn has added one user
\* message, one assistant message per LLM call and one tool message per tool call; and
\* where nothing is trimmed the transcript is only appended to, so that a later chat()
\* on the same agent sees a longer history.
C33_ResponsesStoredBeforeUse ==
    /\ [](pc = "tools" =>
            LET calls == messages[LastAssistant(messages)].tool_calls
            IN  /\ Len(pending) <= Len(calls)
                /\ pending = SubSeq(calls, Len(calls) - Len(pending) + 1, Len(calls)))
    /\ [](ReturnedText =>
            /\ messages[Len(messages)].role = "assistant"
            /\ messages[Len(messages)].content = outcome.value
            /\ Cardinality({i \in UserIndexSet(messages) : i >= LastUser(messages)}) = 1
            /\ Cardinality(LastGroupAssistants(messages)) = llm_calls
            /\ Cardinality(LastGroupTools(messages)) = Cardinality(LastGroupCalls(messages)))
    /\ [][(Len(messages) <= max_history_messages /\ ~ResetStep) =>
            /\ Len(messages') >= Len(messages)
            /\ SubSeq(messages', 1, Len(messages)) = messages]_vars

\* a turn on an untrimmed transcript, answered by text after a text-and-tools response
C33_Witness ==
    /\ ReturnedText
    /\ Len(messages) <= max_history_messages
    /\ llm_calls >= 2
    /\ LastGroupTools(messages) # {}
    /\ messages[LastUser(messages) + 1].content # NoContent

\* C34 as stated: at every LLM call, over any sequence of chat() calls on one agent,
\* every assistant message with tool calls in the outgoing list is followed at once by
\* one tool message per requested call, in the requested order: no request goes out
\* with a tool call left unanswered.
C34_NoUnansweredCallSent ==
    pc = "awaiting" =>
        \A j \in 1..Len(request_messages) :
            (request_messages[j].role = "assistant" /\ request_messages[j].tool_calls # <<>>)
                => AnsweredInOrder(request_messages, j, request_messages[j].tool_calls)

\* the step in which an LLM call raises
LLMCallFails == pc = "awaiting" /\ pc' = "idle" /\ outcome'.kind = "raised"

\* chat() has ended by the exception of an LLM call and its turn is in the transcript
EndedByLLMFailure == TurnEnded /\ outcome = [kind |-> "raised", value |-> "API Error"]

\* C35: a failed LLM call rolls nothing back: when the LLM call of iteration k raises,
\* the transcript (as the trim of iteration k left it) is not changed by the failure;
\* after chat() it holds the user message of the turn and the assistant and tool
\* messages of iterations 1..k-1 and nothing for iteration k; and the next chat()
\* appends its user message after them.
C35_FailedCallRollsNothingBack ==
    /\ [][ /\ LLMCallFails => messages' = messages
           /\ (pc = "idle" /\ pc' = "loop") =>
                  messages' = Append(messages, UserMsg(user_message')) ]_vars
    /\ [](EndedByLLMFailure =>
            /\ messages[LastUser(messages)] = UserMsg(user_message)
            /\ Cardinality(LastGroupAssistants(messages)) = llm_calls - 1
            /\ Cardinality(LastGroupTools(messages)) = Cardinality(LastGroupCalls(messages)))

\* the second or a later LLM call of a turn has failed, after tool calls, on a
\* transcript that holds an earlier turn too
C35_Witness ==
    /\ EndedByLLMFailure
    /\ llm_calls >= 2
    /\ NumUsers(messages) >= 2
    /\ Cardinality(LastGroupAssistants(messages)) = llm_calls - 1
    /\ LastGroupTools(messages) # {}

-----------------------------------------------------------------------------
\* C36: trim() is idempotent: for every transcript and every max_history_messages, a
\* second trim() straight after a first one changes nothing.
C36_TrimIdempotent ==
    [][(pc = "trim" /\ Trimmed) => messages' = messages]_vars

\* a second trim has run on what the fallback of the first left, which is over the cap
C36_Witness ==
    /\ pc = "trim"
    /\ Trimmed
    /\ old_messages = messages
    /\ Len(messages) > max_history_messages
    /\ Len(messages) >= 3
    /\ messages[2].role = "user"
    /\ NumUsers(messages) = 1

-----------------------------------------------------------------------------
\* chat() has ended by using up its budget
EndedByFallback == TurnEnded /\ outcome = [kind |-> "returned", value |-> FallbackText]

\* C37: the fallback text is returned but never stored: the step that returns it leaves
\* the transcript alone, no message of the transcript ever holds it, and after a chat()
\* that ended by budget exhaustion the last message is what the final iteration
\* appended: the tool result of the last call of the last assistant message, or a
\* degenerate assistant message.
C37_FallbackNotStored ==
    /\ [][(pc = "loop" /\ pc' = "idle") => messages' = messages]_vars
    /\ [](\A i \in 1..Len(messages) : messages[i].content # FallbackText)
    /\ [](EndedByFallback =>
            LET last == messages[Len(messages)]
                a == LastAssistant(messages)
            IN  \/ /\ last.role = "tool"
                   /\ messages[a].tool_calls # <<>>
                   /\ a + Len(messages[a].tool_calls) = Len(messages)
                   /\ AnsweredInOrder(messages, a, messages[a].tool_calls)
                \/ last = AssistantMsg(Degenerate))

\* a turn ended by the fallback text straight after the tool results of its last response
C37_Witness ==
    /\ EndedByFallback
    /\ llm_calls = max_iterations
    /\ messages[Len(messages)].role = "tool"

-----------------------------------------------------------------------------
(* Further properties of the cache *)

\* C38: in every state of a cache between calls, hits + misses is the number of get
\* calls completed since the last clear() (or since construction); set and stats never
\* change either counter, and stats changes neither the entries nor their recency order.
C38_CountersCountGets ==
    /\ _lock = Free => _hits + _misses = gets_done
    /\ \A t \in Threads :
           /\ AtReturn(t, "get") => _hits + _misses = gets_done + 1
           /\ AtReturn(t, "set") => _hits = serial.hits /\ _misses = serial.misses
           /\ AtReturn(t, "stats") => CacheObject = serial

\* gets have hit and missed, and a set is about to return on a cache with two entries
C38_Witness ==
    /\ gets_done >= 2
    /\ _hits >= 1
    /\ _misses >= 1
    /\ \E t \in Threads : AtReturn(t, "set") /\ Len(_cache) = 2

\* C39 as stated: set never fails: for every capacity N >= 0 the constructor accepts
\* and in every reachable state, set(key, value) completes without raising, and a
\* get(key) that follows it with no call in between returns value.
C39_SetNeverFails ==
    \A t \in Threads :
        AtReturn(t, "set") =>
            /\ thread[t].ret = RetNone
            /\ Atomic(CacheObject, Call("get", thread[t].call.key, "")).l.ret
                   = Ret("value", thread[t].call.value, NoStats)

-----------------------------------------------------------------------------
(* Properties of get_knowledge() with the knowledge cache *)

KnowledgeEntries == caches["knowledge"].cache

\* the lookup of thread t is for a file that exists and can be read
Readable(t) ==
    /\ Validates(lookup[t].category, lookup[t].subcategory)
    /\ <<lookup[t].category, Defaulted(lookup[t].category, lookup[t].subcategory)>>
           \notin UnreadableFiles

\* a step in which a lookup ends at its validation
ValidationFails(t) == lookup[t].at = "idle" /\ lookup'[t].at = "done"

\* C40: only success results enter the knowledge cache: under every interleaving of
\* concurrent get_knowledge() calls, two callers that both miss on one entry and both
\* write it included, every stored value is a success result (of the entry its key
\* names), the cache holds at most one entry per (knowledge path, category,
\* subcategory), every caller of a readable entry gets a success result, and a lookup
\* that fails validation (invalid category, invalid subcategory, missing file) leaves
\* the entries and the counters of the cache unchanged.
C40_OnlySuccessCached ==
    /\ [](\A i \in 1..Len(KnowledgeEntries) :
            /\ KnowledgeEntries[i].value.status = "success"
            /\ \E input \in LookupInputs :
                  /\ KnowledgeEntries[i].key
                        = CacheKey(input[1], Defaulted(input[1], input[2]))
                  /\ KnowledgeEntries[i].value.source
                        = input[1] \o "/" \o Defaulted(input[1], input[2])
            /\ \A j \in 1..Len(KnowledgeEntries) :
                  KnowledgeEntries[j].key = KnowledgeEntries[i].key => j = i)
    /\ [](\A t \in Threads :
            (lookup[t].at = "done" /\ Readable(t)) =>
                /\ lookup[t].result.status = "success"
                /\ lookup[t].result.content
                      = FileContent(lookup[t].category, lookup[t].subcategory))
    /\ [][\A t \in Threads :
            ValidationFails(t) =>
                /\ lookup'[t].result.status \in {"error", "list"}
                /\ caches' = caches]_vars

\* two callers missed on the same entry and both have written it
C40_Witness ==
    \E t, u \in Threads :
        /\ t # u
        /\ lookup[t].at = "done" /\ lookup[u].at = "done"
        /\ lookup[t].category = lookup[u].category
        /\ lookup[t].subcategory = lookup[u].subcategory
        /\ lookup[t].result.status = "success"
        /\ caches["knowledge"].misses = 2
        /\ caches["knowledge"].hits = 0
        /\ Len(KnowledgeEntries) = 1

=============================================================================
